---- MODULE Spec2Model ----
(***************************************************************************)
(* The finalized streaming client of the portal client                     *)
(* (src/util/portal-client/src/client.ts, createReadablePortalStream):     *)
(* an ingest task that turns a sequence of HTTP responses into one block   *)
(* stream, a buffer handed to the consumer by take(), and the stream       *)
(* object (start / pull / cancel) the consumer reads from.                 *)
(*                                                                         *)
(* Every await of the source is a point where the other task may run, so   *)
(* each action below is the code between two awaits.  Time is abstracted:  *)
(* an armed timer may fire at any moment.                                  *)
(***************************************************************************)
EXTENDS Integers, Sequences, FiniteSets, TLC

\* ------------------------------------------------------------------ bounds
MaxHead == 3            \* the highest block the server ever finalizes
MaxChunk == 2           \* the most lines one line batch of the body carries
MaxRequests == 2        \* the most POST requests one stream issues in a run
MaxCancels == 2         \* the most calls of cancel by the consumer
QueryFromBlock == 1     \* query.fromBlock of the caller
QueryToBlock == 2       \* query.toBlock of the caller, when it gives one

\* --------------------------------------------------------------- constants
Infinity == 1000000     \* toBlock = Infinity: larger than every block number
HighWaterMark == 1      \* the default queuing strategy of new ReadableStream

\* The stream options the caller may give (getFinalizedStream).
MinBytesOptions == {2}
MaxBytesOptions == {3}
ToBlockOptions == {QueryToBlock, Infinity}

\* The length of the JSON line of block n: lines differ in length.
LineLength(n) == IF n % 3 = 0 THEN 1 ELSE 2

VARIABLES
    \* options of the stream
    stopOnHead, toBlock, minBytes, maxBytes,
    \* the portal server
    head,               \* the finalized height of the dataset
    bodyNext,           \* the first block the open response body may still emit
    \* the ingest task
    pc,                 \* the await ingest is suspended at, or how it ended
    fromBlock,          \* the local fromBlock of ingest
    reader,             \* the body reader: "none", "open", "ended", "cancelled"
    resHead,            \* finalizedHead.height of the current response
    thrown,             \* the error ingest threw
    ingestWake,         \* the takeFuture ingest awaits has been resolved
    \* the shared state of createReadablePortalStream
    aborted,            \* abortStream.signal.aborted
    buffer, state, error,
    readyFuture, takeFuture, putFuture,     \* TRUE: the current future is resolved
    idleInterval, waitTimeout,              \* TRUE: the timer is armed
    \* the pull handler (take) and the ReadableStream in front of it
    pullPc,             \* "idle", "awaitReady", "awaitPut"
    rs,                 \* the stream: state, queue, closeRequested, readRequest, storedError
    \* what the consumer has observed, and history
    delivered,          \* the batches the consumer has received, in order
    outcome,            \* "none", "eos" (a read returned done) or "error"
    emitted,            \* the blocks ingest has read from 200 responses
    handed,             \* the blocks take() has returned
    requestCount,       \* the number of POST requests issued
    lastRequest,        \* the fromBlock of the last POST request
    issued,             \* the calls of requestStream: the query and the options given
    portalQuery,        \* the query object the caller gave to getFinalizedStream
    cancelCalls,        \* the number of calls of cancel
    cancelled,          \* the cancel handler has run
    pcAtCancel,         \* pc when the cancel handler ran
    deliveredAtCancel,  \* Len(delivered) when the cancel handler ran
    bodyTimedOut,       \* a body read has failed with HttpBodyTimeoutError
    lastStatus,         \* the status of the last POST answered, 0 while one is pending
    readyBy,            \* what resolved the current readyFuture, "none" while unresolved
    regressed,          \* the height endpoint has answered below an earlier answer
    disordered,         \* the server has emitted a block not above the one before it
    \* the line splitter (LineSplitStream) on a text of its own
    decoded,            \* the text the decoder writes to the splitter, in chunks
    written,            \* the number of characters of the text written so far
    cuts,               \* the positions in the text at which the chunks written ended
    line,               \* this.line: the partial line carried to the next chunk
    enqueued,           \* the line batches the splitter has enqueued, in order
    flushed,            \* flush() has run: the writable side was closed
    \* the query builder (EvmQueryBuilder)
    range,              \* this.range
    ranges,             \* this.ranges
    calls,              \* the add* calls made: the kind, and the options as passed
    lastReturn,         \* what the last call of the builder returned
    built,              \* the ranges of the query the last build() returned
    \* the data source (EvmPortalDataSource.getBlockStream) over a built query
    outer,              \* the range given to getBlockStream
    query,              \* `query` of ingest: the requests clipped by that range
    dsPc,               \* where ingest of the data source stands, "idle" before the call
    fields,             \* this.fields: the field selection of the user
    index,              \* the number of requests of `query` the for loop has taken up
    wire,               \* the requests given to getFinalizedStream, in order
    portal,             \* the portal stream being read: its state and its next block
    arrived,            \* the batches read from the portal streams, in order
    queue,              \* the AsyncQueue between ingest and pull
    acAborted,          \* ac.signal.aborted
    out,                \* the stream getBlockStream returned (as rs above)
    outPullPc,          \* its pull handler: "idle" or "take"
    received,           \* the batches the consumer of the data source has received
    outOutcome,         \* how its reads ended: "none", "eos" or "error"
    \* the options of a client and of a stream made from it (PortalClient)
    clientOptions,      \* the options given to `new PortalClient`
    client,             \* this.minBytes and this.maxBytes of the client
    streamOptions,      \* the options given to getFinalizedStream
    effective,          \* minBytes and maxBytes as the stream runs with them
    optionsPc,          \* "new", "client", "options", "stream": how far that went
    \* the stream of the client built on AsyncQueue (client.ts, lines 442-779)
    startBlock,         \* the block the next request of its ingest starts from
    archiveQueries,     \* the queries of the POST requests its ingest has issued
    abortStream,        \* abortStream.signal.aborted
    ac,                 \* ac.signal.aborted of the current turn of the loop
    heartbeat,          \* whether the interval of a HeartBeat is set
    blocksBuffer,       \* BlocksBuffer: blocks, size and the queue of one place
    ingestPc,           \* where its ingest is: "idle", "request", "wait", "pipe",
                        \* "write", "returned", "threw" or "finished"
    body,               \* the next block the response body will carry
    stream,             \* the ReadableStream handed to the consumer
    streamPullPc,       \* its pull(): "idle" or "take"
    taken,              \* the batches the consumer has read from it
    ended,              \* how the consumer's reads ended: "none", "eos", "error"
    timedOut,           \* the heartbeat found the body silent for newBlockTimeout
    streamCancelled     \* the consumer cancelled the stream

splitVars == <<decoded, written, cuts, line, enqueued, flushed>>
\* The variables of the components modelled apart from the stream.
builderVars == <<range, ranges, calls, lastReturn, built>>
\* The variables of the data source beside outer, query and dsPc.
sourceRest == <<fields, index, wire, portal, arrived, queue, acAborted, out,
                outPullPc, received, outOutcome>>
sourceVars == <<outer, query, dsPc, sourceRest>>
\* The variables of the options of a client and its stream.
configVars == <<clientOptions, client, streamOptions, effective, optionsPc>>
\* The variables of the stream of the client built on AsyncQueue.
queueVars == <<startBlock, archiveQueries, abortStream, ac, heartbeat, blocksBuffer,
               ingestPc, body, stream, streamPullPc, taken, ended, timedOut,
               streamCancelled>>
libVars == <<splitVars, builderVars, sourceVars, configVars, queueVars>>
optVars == <<stopOnHead, toBlock, minBytes, maxBytes, portalQuery>>
vars == <<portalQuery, stopOnHead, toBlock, minBytes, maxBytes, head, bodyNext, pc, fromBlock,
          reader, resHead, thrown, ingestWake, aborted, buffer, state, error,
          readyFuture, takeFuture, putFuture, idleInterval, waitTimeout, pullPc, rs,
          delivered, outcome, emitted, handed, requestCount, lastRequest, issued,
          cancelCalls, cancelled, pcAtCancel, deliveredAtCancel, bodyTimedOut,
          lastStatus, readyBy, regressed, disordered,
          decoded, written, cuts, line, enqueued, flushed,
          range, ranges, calls, lastReturn, built,
          outer, query, dsPc, fields, index, wire, portal, arrived, queue,
          acAborted, out, outPullPc, received, outOutcome,
          clientOptions, client, streamOptions, effective, optionsPc,
          startBlock, archiveQueries, abortStream, ac, heartbeat, blocksBuffer,
          ingestPc, body, stream, streamPullPc, taken, ended, timedOut,
          streamCancelled>>

\* ----------------------------------------------------------------- helpers
Max(a, b) == IF a >= b THEN a ELSE b
Min(a, b) == IF a <= b THEN a ELSE b
Last(s) == s[Len(s)]

RECURSIVE SumLength(_)
SumLength(s) == IF s = <<>> THEN 0 ELSE LineLength(Head(s)) + SumLength(Tail(s))

RECURSIVE Flatten(_)
Flatten(batches) ==
    IF batches = <<>> THEN <<>> ELSE Head(batches).blocks \o Flatten(Tail(batches))

IsPrefix(s, t) == Len(s) <= Len(t) /\ \A i \in 1..Len(s) : s[i] = t[i]
StrictlyIncreasing(s) == \A i \in 1..(Len(s) - 1) : s[i] < s[i + 1]

\* A line batch of the body: the next 1..MaxChunk blocks from lo on, none above hi.
Chunks(lo, hi) ==
    {[i \in 1..k |-> lo + i - 1] : k \in 1..Min(MaxChunk, hi - lo + 1)}

\* `let buffer: {...} | undefined`: the absent buffer.  Beside data (blocks and
\* the finalized head) and bytes, the model records in `tail` the bytes of the
\* line batch appended last.
NoBuffer == [some |-> FALSE, blocks |-> <<>>, bytes |-> 0, head |-> 0, tail |-> 0]
\* `buffer?.data` of an absent buffer.
Undefined == [undef |-> TRUE, blocks |-> <<>>, head |-> 0, tail |-> 0]
\* createFuture(): a new, unresolved future.
createFuture == FALSE

srvVars == <<head, bodyNext>>
ingestVars == <<pc, fromBlock, reader, resHead, thrown, ingestWake>>
timerVars == <<idleInterval, waitTimeout>>
futureVars == <<readyFuture, takeFuture, putFuture>>
rsVars == <<pullPc, rs, delivered, outcome>>
cancelVars == <<cancelCalls, cancelled, pcAtCancel, deliveredAtCancel>>
envVars == <<regressed, disordered>>

\* The awaits of ingest: the HTTP exchanges, the body read, the head-poll sleep
\* and the backpressure wait.
Suspended == {"height", "request", "sleep", "read", "park"}

\* --------------------------------------------------------------------- Init
\* A line splitter nothing was written to.
SplitIdle ==
    /\ decoded = <<>>
    /\ written = 0
    /\ cuts = {}
    /\ line = <<>>
    /\ enqueued = <<>>
    /\ flushed = FALSE

\* `{from: 0}`: a range without `to` has no upper end.
Unbounded == [from |-> 0, to |-> Infinity]

\* `new EvmQueryBuilder()`: `range = {from: 0}`, `ranges = []`.
BuilderIdle ==
    /\ range = Unbounded
    /\ ranges = <<>>
    /\ calls = <<>>
    /\ lastReturn = "none"
    /\ built = <<>>

\* The fields of each entity the model tells apart (interfaces/data.ts): those
\* the data source cannot do without, and one more of each entity.
FieldNames ==
    [block |-> {"number", "hash", "parentHash", "timestamp"},
     transaction |-> {"transactionIndex", "hash"},
     log |-> {"logIndex", "transactionIndex", "address"},
     trace |-> {"transactionIndex", "traceAddress", "type", "error"},
     stateDiff |-> {"transactionIndex", "address", "key", "kind", "next"}]
Entities == DOMAIN FieldNames

\* A field selection gives each field `true`, `false`, or nothing ("absent").
Selection(selected, rejected) ==
    [e \in Entities |->
        [n \in FieldNames[e] |->
            IF <<e, n>> \in selected THEN "true"
            ELSE IF <<e, n>> \in rejected THEN "false" ELSE "absent"]]

\* A field selection that selects nothing: `{}`.
NoFields == Selection({}, {})

\* A data source whose getBlockStream was not called.
SourceIdle ==
    /\ outer = Unbounded
    /\ query = <<>>
    /\ dsPc = "idle"
    /\ fields = NoFields
    /\ index = 0
    /\ wire = <<>>
    /\ portal = [state |-> "none", next |-> 0]
    /\ arrived = <<>>
    /\ queue = [items |-> <<>>, closed |-> FALSE]
    /\ acAborted = FALSE
    /\ out = [state |-> "readable", queue |-> <<>>, closeRequested |-> FALSE,
              readRequest |-> FALSE, storedError |-> "none"]
    /\ outPullPc = "idle"
    /\ received = <<>>
    /\ outOutcome = "none"

\* An option that was not given, and one given as v.
Absent == [given |-> FALSE, value |-> 0]
Given(v) == [given |-> TRUE, value |-> v]

\* No client was made: the options of a client are not looked at.
ConfigIdle ==
    /\ clientOptions = [minBytes |-> Absent, maxBytes |-> Absent]
    /\ client = [minBytes |-> 0, maxBytes |-> 0]
    /\ streamOptions = [minBytes |-> Absent, maxBytes |-> Absent]
    /\ effective = [minBytes |-> 0, maxBytes |-> 0]
    /\ optionsPc = "idle"

\* No stream of the client built on AsyncQueue was made.
QueueClientIdle ==
    /\ startBlock = 0
    /\ archiveQueries = <<>>
    /\ abortStream = FALSE
    /\ ac = FALSE
    /\ heartbeat = FALSE
    /\ blocksBuffer = [blocks |-> <<>>, size |-> 0,
                       queue |-> [items |-> <<>>, closed |-> FALSE]]
    /\ ingestPc = "idle"
    /\ body = 0
    /\ stream = [state |-> "readable", queue |-> <<>>, closeRequested |-> FALSE,
                 readRequest |-> FALSE, storedError |-> "none"]
    /\ streamPullPc = "idle"
    /\ taken = <<>>
    /\ ended = "none"
    /\ timedOut = FALSE
    /\ streamCancelled = FALSE

\* `maxBytes = Math.max(maxBytes, minBytes)`, line 184.
EffectiveMaxBytesAsGiven(maxB, minB) == maxB
EffectiveMaxBytes(maxB, minB) == Max(maxB, minB)

\* The query a caller gives to getFinalizedStream (query/evm.ts): `toBlock` is
\* absent in a query without an end, which ingest reads as Infinity.
CallerQuery(to) ==
    [type |-> "evm", fromBlock |-> QueryFromBlock, toBlock |-> to,
     fields |-> [block |-> {"number", "hash"}, log |-> {"address"}],
     logs |-> <<[address |-> <<"0xab">>]>>, transactions |-> <<>>,
     traces |-> <<>>, statediffs |-> <<>>, includeAllBlocks |-> FALSE]

\* `request` of the stream options, which never carries `abort`.
CallerRequest == [headers |-> "caller", bodyTimeout |-> "caller", abort |-> "none"]

\* `{...query, fromBlock}`, lines 285-288.
RequestQueryWithoutEnd(q, fb) == [q EXCEPT !.fromBlock = fb, !.toBlock = Infinity]
RequestQuery(q, fb) == [q EXCEPT !.fromBlock = fb]

\* `{...request, abort: abortSignal}`, lines 289-292.
RequestOptions(request) == [request EXCEPT !.abort = "abortStream.signal"]

\* The state createReadablePortalStream sets up, lines 184-198.
StreamInit ==
    /\ stopOnHead \in BOOLEAN
    /\ toBlock \in ToBlockOptions
    /\ minBytes \in MinBytesOptions
    /\ \E m \in MaxBytesOptions : maxBytes = EffectiveMaxBytes(m, minBytes)
    /\ head = QueryFromBlock - 1
    /\ bodyNext = QueryFromBlock
    /\ pc = IF QueryFromBlock > toBlock THEN "returned" ELSE "height"
    /\ fromBlock = QueryFromBlock
    /\ reader = "none"
    /\ resHead = 0
    /\ thrown = "none"
    /\ ingestWake = FALSE
    /\ aborted = FALSE
    /\ buffer = NoBuffer
    /\ state = "open"
    /\ error = "none"
    /\ readyFuture = createFuture
    /\ takeFuture = createFuture
    /\ putFuture = createFuture
    /\ idleInterval = FALSE
    /\ waitTimeout = FALSE
    /\ pullPc = "idle"
    /\ rs = [state |-> "readable", queue |-> <<>>, closeRequested |-> FALSE,
             readRequest |-> FALSE, storedError |-> "none"]
    /\ delivered = <<>>
    /\ outcome = "none"
    /\ emitted = <<>>
    /\ handed = <<>>
    /\ requestCount = 0
    /\ lastRequest = 0
    /\ issued = <<>>
    /\ portalQuery = CallerQuery(toBlock)
    /\ cancelCalls = 0
    /\ cancelled = FALSE
    /\ pcAtCancel = "none"
    /\ deliveredAtCancel = 0
    /\ bodyTimedOut = FALSE
    /\ lastStatus = 0
    /\ readyBy = "none"
    /\ regressed = FALSE
    /\ disordered = FALSE

Init ==
    StreamInit /\ SplitIdle /\ BuilderIdle /\ SourceIdle /\ ConfigIdle /\ QueueClientIdle

\* ----------------------------------------------------------- the ingest task
\* `reader?.cancel()` of the finally block.
ReaderLeftAsIs == reader
ReaderCancelled == IF reader = "open" THEN "cancelled" ELSE reader

\* The top of `while (true)`: the two breaks, else the next requestStream call.
LoopTopIgnoresToBlock(fb) == IF aborted THEN "returned" ELSE "height"
LoopTop(fb) ==
    IF aborted THEN "returned" ELSE IF fb > toBlock THEN "returned" ELSE "height"

\* The outer catch: an error thrown while the signal is aborted is ignored.
AbortCatchRethrows == "threw"
AbortCatch == "returned"

\* `fromBlock = block.header.number + 1`
NextFromBlockSame(number) == number
NextFromBlock(number) == number + 1

\* `if (buffer.bytes >= maxBytes)`: the producer awaits the take.
ShouldParkAbove(bytes) == bytes > maxBytes
ShouldPark(bytes) == bytes >= maxBytes

\* The height the dataset has reached when the server answers next: the server
\* finalizes blocks on its own, and ingest sees the height only in its answers.
Heights == head..MaxHead

\* requestStream, first await: getFinalizedHeight() answers, and the POST with
\* {...query, fromBlock} is issued.
HeightResponse ==
    /\ pc = "height" /\ ~aborted
    /\ requestCount < MaxRequests
    /\ head' \in Heights
    /\ resHead' = head'
    /\ pc' = "request"
    /\ requestCount' = requestCount + 1
    /\ lastRequest' = fromBlock
    /\ issued' = Append(issued, [query |-> RequestQuery(portalQuery, fromBlock),
                                 options |-> RequestOptions(CallerRequest)])
    /\ lastStatus' = 0
    /\ UNCHANGED <<libVars, optVars, bodyNext, fromBlock, reader, thrown, ingestWake, aborted,
                   buffer, state, error, futureVars, timerVars, rsVars, emitted,
                   handed, cancelVars, bodyTimedOut,
                   readyBy, envVars>>

\* The POST answers 200: the body becomes the reader of the inner loop.
Response200 ==
    /\ pc = "request" /\ ~aborted
    /\ head' \in Heights
    /\ fromBlock <= head'
    /\ reader' = "open"
    /\ bodyNext' = fromBlock
    /\ pc' = "read"
    /\ lastStatus' = 200
    /\ UNCHANGED <<libVars, optVars, fromBlock, resHead, thrown, ingestWake, aborted,
                   buffer, state, error, futureVars, timerVars, rsVars, emitted,
                   handed, requestCount, lastRequest, issued, cancelVars, bodyTimedOut,
                   readyBy, envVars>>

\* `if (stopOnHead) break; await wait(headPollInterval, abortSignal)`
AfterNoContentAlwaysPolls == "sleep"
AfterNoContent == IF stopOnHead THEN "returned" ELSE "sleep"

\* The POST answers 204 (no data at fromBlock yet): break with stopOnHead, else
\* wait(headPollInterval).
Response204 ==
    /\ pc = "request" /\ ~aborted
    /\ head' \in Heights
    /\ fromBlock > head'
    /\ pc' = AfterNoContent
    /\ reader' = IF pc' = "returned" THEN ReaderCancelled ELSE reader
    /\ lastStatus' = 204
    /\ UNCHANGED <<libVars, optVars, bodyNext, fromBlock, resHead, thrown, ingestWake, aborted,
                   buffer, state, error, futureVars, timerVars, rsVars, emitted,
                   handed, requestCount, lastRequest, issued, cancelVars, bodyTimedOut,
                   readyBy, envVars>>

\* `default: throw unexpectedCase(res.status)`
unexpectedCaseTakenAsNoContent == AfterNoContent
unexpectedCase == "threw"

\* requestStream throws: the POST answers another status (unexpectedCase), or
\* the exchange fails.
RequestFails ==
    /\ pc = "request" /\ ~aborted
    /\ thrown' = "status"
    /\ pc' = unexpectedCase
    /\ reader' = IF pc' = "sleep" THEN reader ELSE ReaderCancelled
    /\ lastStatus' = 500
    /\ UNCHANGED <<libVars, optVars, srvVars, fromBlock, resHead, ingestWake, aborted, buffer,
                   state, error, futureVars, timerVars, rsVars, emitted, handed,
                   requestCount, lastRequest, issued, cancelVars, bodyTimedOut,
                   readyBy, envVars>>

\* A height endpoint that answers one below its previous answer (a replica that
\* lags behind): requestStream stamps the response with what it answers.
HeightResponseStale ==
    /\ pc = "height" /\ ~aborted
    /\ requestCount < MaxRequests
    /\ resHead > 0
    /\ resHead' = resHead - 1
    /\ regressed' = TRUE
    /\ pc' = "request"
    /\ requestCount' = requestCount + 1
    /\ lastRequest' = fromBlock
    /\ issued' = Append(issued, [query |-> RequestQuery(portalQuery, fromBlock),
                                 options |-> RequestOptions(CallerRequest)])
    /\ lastStatus' = 0
    /\ UNCHANGED <<libVars, optVars, srvVars, fromBlock, reader, thrown, ingestWake, aborted,
                   buffer, state, error, futureVars, timerVars, rsVars, emitted,
                   handed, cancelVars, bodyTimedOut, readyBy, disordered>>

\* The characters of the text the height endpoint answers with: decimal digits,
\* and "e" for any character that is none.
Digits == <<"0", "1", "2", "3", "4", "5", "6", "7", "8", "9">>
DigitValue(c) == CHOOSE d \in 0..9 : Digits[d + 1] = c
IsDigit(c) == \E d \in 0..9 : Digits[d + 1] = c

\* The decimal text of a height, as a well-formed answer carries it.
RECURSIVE HeightText(_)
HeightText(h) ==
    IF h < 10 THEN <<Digits[h + 1]>>
    ELSE HeightText(h \div 10) \o <<Digits[(h % 10) + 1]>>

\* The value parseInt yields for a text without a leading number.  It is no
\* integer: the model gives it a value that is no block number.
NaN == -1

\* `parseInt(res)`: the number written by the longest prefix of digits; what
\* follows the prefix is ignored, and without a leading digit the result is NaN.
RECURSIVE parseDigits(_, _)
parseDigits(text, acc) ==
    IF text = <<>> \/ ~IsDigit(Head(text)) THEN acc
    ELSE parseDigits(Tail(text), 10 * acc + DigitValue(Head(text)))
parseInt(text) ==
    IF text = <<>> \/ ~IsDigit(Head(text)) THEN NaN ELSE parseDigits(text, 0)

\* `Number.isSafeInteger(height)` for the values parseInt yields.
isSafeInteger(height) == height # NaN

\* The answers of a height endpoint that does not keep to the format: the empty
\* text, a text of no digit, and the height followed by another character.
MalformedTexts(h) == {<<>>, <<"e">>, HeightText(h) \o <<"e">>}

\* getFinalizedHeight, lines 81-85, on such an answer: `return height` with
\* whatever parseInt yields, and requestStream goes on to the POST.
HeightResponseMalformed ==
    /\ pc = "height" /\ ~aborted
    /\ requestCount < MaxRequests
    /\ isSafeInteger(resHead)
    /\ \E text \in MalformedTexts(head) : resHead' = parseInt(text)
    /\ pc' = "request"
    /\ requestCount' = requestCount + 1
    /\ lastRequest' = fromBlock
    /\ issued' = Append(issued, [query |-> RequestQuery(portalQuery, fromBlock),
                                 options |-> RequestOptions(CallerRequest)])
    /\ lastStatus' = 0
    /\ UNCHANGED <<libVars, optVars, srvVars, fromBlock, reader, thrown, ingestWake, aborted,
                   buffer, state, error, futureVars, timerVars, rsVars, emitted,
                   handed, cancelVars, bodyTimedOut, readyBy, envVars>>

\* wait(headPollInterval) is over: back to the top of the loop.
WaitDone ==
    /\ pc = "sleep" /\ ~aborted
    /\ pc' = LoopTop(fromBlock)
    /\ reader' = IF pc' = "returned" THEN ReaderCancelled ELSE reader
    /\ UNCHANGED <<libVars, optVars, srvVars, fromBlock, resHead, thrown, ingestWake, aborted,
                   buffer, state, error, futureVars, timerVars, rsVars, emitted,
                   handed, requestCount, lastRequest, issued, cancelVars, bodyTimedOut,
                   lastStatus, readyBy, envVars>>

\* `data: {finalizedHead, blocks: []}` of a new buffer.
NewBufferHeadMissing == buffer.head
NewBufferHead == resHead

\* The buffer after the lines of `chunk` are appended (lines 312-328).
Appended(chunk) ==
    LET b == IF buffer.some
             THEN [buffer EXCEPT !.head = resHead]
             ELSE [some |-> TRUE, blocks |-> <<>>, bytes |-> 0, head |-> NewBufferHead,
                   tail |-> 0]
    IN  [b EXCEPT !.blocks = @ \o chunk, !.bytes = @ + SumLength(chunk),
                  !.tail = SumLength(chunk)]

\* `if (buffer.bytes >= minBytes) readyFuture.resolve()`
ShouldResolveReadyAbove(bytes) == bytes > minBytes
ShouldResolveReadyNever(bytes) == FALSE
ShouldResolveReady(bytes) == bytes >= minBytes

\* `if (idleInterval == null) createIdleInterval()`: the interval is armed after
\* a chunk unless readyFuture is resolved, whose finally callback destroys it.
IdleIntervalNever(ready) == FALSE
IdleIntervalKept(ready) == TRUE
IdleIntervalAfterChunk(ready) == ~ready

\* The body of the inner loop for the line batch `chunk`, lines 307-338.
\* A timer armed while readyFuture is resolved is destroyed by the finally
\* callback of that future before any timer can fire.
Receive(chunk) ==
    LET b == Appended(chunk)
        ready == readyFuture \/ ShouldResolveReady(b.bytes)
    IN  /\ buffer' = b
        /\ fromBlock' = NextFromBlock(Last(chunk))
        /\ emitted' = emitted \o chunk
        /\ readyFuture' = ready
        /\ readyBy' = IF ready /\ ~readyFuture THEN "bytes" ELSE readyBy
        /\ idleInterval' = IdleIntervalAfterChunk(ready)
        /\ waitTimeout' = (waitTimeout /\ ~ready)
        /\ putFuture' = TRUE
        /\ pc' = IF ShouldPark(b.bytes) THEN "park" ELSE "read"
        /\ ingestWake' = FALSE
        /\ UNCHANGED <<libVars, optVars, reader, resHead, thrown, aborted, state, error,
                       takeFuture, rsVars, handed, requestCount, lastRequest, issued,
                       cancelVars, bodyTimedOut, lastStatus, regressed>>

\* reader.read() yields the next line batch of the body.
ReadChunk ==
    /\ pc = "read" /\ ~aborted
    /\ head' \in Heights
    /\ \E chunk \in Chunks(bodyNext, Min(head', toBlock)) :
        /\ Receive(chunk)
        /\ bodyNext' = Last(chunk) + 1
    /\ UNCHANGED disordered

\* A server that, once, in the last response of the run, emits the block below
\* the one before it (the same block again when there is none below): the inner
\* loop treats the line like any other.
ReadOutOfOrder ==
    /\ pc = "read" /\ ~aborted
    /\ ~disordered
    /\ requestCount = MaxRequests
    /\ emitted # <<>>
    /\ Receive(<<Max(QueryFromBlock, Last(emitted) - 1)>>)
    /\ disordered' = TRUE
    /\ UNCHANGED srvVars

\* A line of the batch is no JSON: JSON.parse throws after the lines before it
\* have been appended; neither future is resolved.
ReadMalformed ==
    /\ pc = "read" /\ ~aborted
    /\ \E chunk \in {c \in Chunks(bodyNext, Min(head, toBlock)) \cup {<<>>} :
                        Len(c) < MaxChunk} :
        /\ buffer' = Appended(chunk)
        /\ fromBlock' = IF chunk = <<>> THEN fromBlock ELSE NextFromBlock(Last(chunk))
        /\ bodyNext' = IF chunk = <<>> THEN bodyNext ELSE Last(chunk) + 1
        /\ emitted' = emitted \o chunk
    /\ idleInterval' = IdleIntervalAfterChunk(readyFuture)
    /\ pc' = "threw"
    /\ thrown' = "parse"
    /\ reader' = ReaderCancelled
    /\ UNCHANGED <<libVars, optVars, head, resHead, ingestWake, aborted, state, error,
                   futureVars, waitTimeout, rsVars, handed, requestCount,
                   lastRequest, issued, cancelVars, bodyTimedOut,
                   lastStatus, readyBy, envVars>>

\* `if (buffer != null) readyFuture.resolve()` after the inner loop.
TailReadyNever == FALSE
TailReady == buffer.some

\* The body ends (lines 304, 341-344): the tail is made ready and the loop goes on.
ReadDone ==
    /\ pc = "read" /\ ~aborted
    /\ idleInterval' = FALSE
    /\ readyFuture' = (readyFuture \/ TailReady)
    /\ readyBy' = IF TailReady /\ ~readyFuture THEN "end" ELSE readyBy
    /\ waitTimeout' = (waitTimeout /\ ~TailReady)
    /\ pc' = LoopTop(fromBlock)
    /\ reader' = "ended"
    /\ UNCHANGED <<libVars, optVars, srvVars, fromBlock, resHead, thrown, ingestWake, aborted,
                   buffer, state, error, takeFuture, putFuture, rsVars, emitted,
                   handed, requestCount, lastRequest, issued, cancelVars, bodyTimedOut,
                   lastStatus, envVars>>

\* reader.read() rejects.  The catch of lines 347-352 ignores HttpBodyTimeoutError
\* and, being outside `while (true)`, leaves the loop: ingest returns.
ReadFails ==
    /\ pc = "read" /\ ~aborted
    /\ \/ /\ bodyTimedOut' = TRUE
          /\ pc' = "returned"
          /\ thrown' = thrown
       \/ /\ bodyTimedOut' = bodyTimedOut
          /\ pc' = "threw"
          /\ thrown' = "transport"
    /\ reader' = ReaderCancelled
    /\ UNCHANGED <<libVars, optVars, srvVars, fromBlock, resHead, ingestWake, aborted, buffer,
                   state, error, futureVars, timerVars, rsVars, emitted, handed,
                   requestCount, lastRequest, issued, cancelVars,
                   lastStatus, readyBy, envVars>>

\* The takeFuture awaited at line 337 was resolved by take(): the inner loop
\* goes on with the next reader.read().
TakeReleased ==
    /\ pc = "park" /\ ingestWake
    /\ pc' = "read"
    /\ ingestWake' = FALSE
    /\ UNCHANGED <<libVars, optVars, srvVars, fromBlock, reader, resHead, thrown, aborted,
                   buffer, state, error, futureVars, timerVars, rsVars, emitted,
                   handed, requestCount, lastRequest, issued, cancelVars, bodyTimedOut,
                   lastStatus, readyBy, envVars>>

\* The signal is aborted: the pending await rejects (withAbort, wait, the HTTP
\* client), the finally block cancels the reader and the outer catch decides.
AbortReject ==
    /\ pc \in Suspended /\ aborted
    /\ pc' = AbortCatch
    /\ thrown' = IF pc' = "threw" THEN "abort" ELSE thrown
    /\ reader' = ReaderCancelled
    /\ ingestWake' = FALSE
    /\ UNCHANGED <<libVars, optVars, srvVars, fromBlock, resHead, aborted, buffer, state,
                   error, futureVars, timerVars, rsVars, emitted, handed,
                   requestCount, lastRequest, issued, cancelVars, bodyTimedOut,
                   lastStatus, readyBy, envVars>>

\* start(): ingest().then(close, fail) -- close() of lines 224-230.
Close ==
    /\ pc = "returned"
    /\ pc' = "finished"
    /\ IF state # "open"
       THEN UNCHANGED <<state, futureVars, timerVars, readyBy>>
       ELSE /\ state' = "closed"
            /\ readyFuture' = TRUE
            /\ readyBy' = IF readyFuture THEN readyBy ELSE "close"
            /\ putFuture' = TRUE
            /\ takeFuture' = TRUE
            /\ idleInterval' = FALSE
            /\ waitTimeout' = FALSE
    /\ UNCHANGED <<libVars, optVars, srvVars, fromBlock, reader, resHead, thrown, ingestWake,
                   aborted, buffer, error, rsVars, emitted, handed, requestCount,
                   lastRequest, issued, cancelVars, bodyTimedOut,
                   lastStatus, envVars>>

\* `state = 'failed'` of fail(), line 234.
StateAfterFailClosed == "closed"
StateAfterFail == "failed"

\* start(): ingest().then(close, fail) -- fail(err) of lines 232-239.
Fail ==
    /\ pc = "threw"
    /\ pc' = "finished"
    /\ IF state # "open"
       THEN UNCHANGED <<state, error, futureVars, timerVars, readyBy>>
       ELSE /\ state' = StateAfterFail
            /\ error' = thrown
            /\ readyFuture' = TRUE
            /\ readyBy' = IF readyFuture THEN readyBy ELSE "fail"
            /\ putFuture' = TRUE
            /\ takeFuture' = TRUE
            /\ idleInterval' = FALSE
            /\ waitTimeout' = FALSE
    /\ UNCHANGED <<libVars, optVars, srvVars, fromBlock, reader, resHead, thrown, ingestWake,
                   aborted, buffer, rsVars, emitted, handed, requestCount,
                   lastRequest, issued, cancelVars, bodyTimedOut,
                   lastStatus, envVars>>

\* ---------------------------------------------------------------- the timers
\* A timer callback is a task of its own: it does not run between the end of
\* ingest and the close or fail that the same promise job queue runs next.
TimersMayFire == pc \notin {"returned", "threw"}

\* The idle interval finds maxIdleTime elapsed since the last chunk (lines
\* 245-251): readyFuture is resolved, whose finally callbacks destroy the timers.
IdleFire ==
    /\ idleInterval
    /\ TimersMayFire
    /\ readyFuture' = TRUE
    /\ readyBy' = IF readyFuture THEN readyBy ELSE "idle"
    /\ idleInterval' = FALSE
    /\ waitTimeout' = FALSE
    /\ UNCHANGED <<libVars, optVars, srvVars, ingestVars, aborted, buffer, state, error,
                   takeFuture, putFuture, rsVars, emitted, handed, requestCount,
                   lastRequest, issued, cancelVars, bodyTimedOut,
                   lastStatus, envVars>>

\* The wait timeout of take() expires (line 263).
WaitFire ==
    /\ waitTimeout
    /\ TimersMayFire
    /\ readyFuture' = TRUE
    /\ readyBy' = IF readyFuture THEN readyBy ELSE "wait"
    /\ idleInterval' = FALSE
    /\ waitTimeout' = FALSE
    /\ UNCHANGED <<libVars, optVars, srvVars, ingestVars, aborted, buffer, state, error,
                   takeFuture, putFuture, rsVars, emitted, handed, requestCount,
                   lastRequest, issued, cancelVars, bodyTimedOut,
                   lastStatus, envVars>>
\* --------------------------------- the ReadableStream around start/pull/cancel
\* The operations of the default controller that pull() and the consumer use.
\* Each yields the stream after the call and what a pending read is settled with.
CanCloseOrEnqueue(s) == s.state = "readable" /\ ~s.closeRequested

\* Whether the stream calls pull(): it is readable, no close was requested, and a
\* read is pending or the queue is below the high-water mark.
ShouldCallPull(s) ==
    /\ CanCloseOrEnqueue(s)
    /\ (s.readRequest \/ Len(s.queue) < HighWaterMark)

\* controller.error(e): no effect unless the stream is readable.
ControllerErrorAlways(s, e) ==
    [rs |-> [s EXCEPT !.state = "errored", !.queue = <<>>, !.storedError = e,
                      !.readRequest = FALSE],
     settle |-> "error"]
ControllerError(s, e) ==
    IF s.state # "readable"
    THEN [rs |-> s, settle |-> "none"]
    ELSE [rs |-> [s EXCEPT !.state = "errored", !.queue = <<>>, !.storedError = e,
                           !.readRequest = FALSE],
          settle |-> IF s.readRequest THEN "error" ELSE "none"]

\* pull(): `controller.enqueue(result.value)`, which throws a TypeError on a stream
\* that is not readable; the catch hands it to controller.error.
ControllerEnqueueAlways(s, v) ==
    IF s.readRequest
    THEN [rs |-> [s EXCEPT !.readRequest = FALSE], settle |-> "chunk"]
    ELSE [rs |-> [s EXCEPT !.queue = Append(@, v)], settle |-> "none"]
ControllerEnqueue(s, v) ==
    IF ~CanCloseOrEnqueue(s)
    THEN ControllerError(s, "TypeError")
    ELSE IF s.readRequest
         THEN [rs |-> [s EXCEPT !.readRequest = FALSE], settle |-> "chunk"]
         ELSE [rs |-> [s EXCEPT !.queue = Append(@, v)], settle |-> "none"]

\* pull(): `controller.close()`; the stream closes once its queue is drained.
ControllerClose(s) ==
    IF ~CanCloseOrEnqueue(s)
    THEN ControllerError(s, "TypeError")
    ELSE IF s.queue = <<>>
         THEN [rs |-> [s EXCEPT !.state = "closed", !.closeRequested = TRUE,
                                !.readRequest = FALSE],
               settle |-> IF s.readRequest THEN "done" ELSE "none"]
         ELSE [rs |-> [s EXCEPT !.closeRequested = TRUE], settle |-> "none"]

\* What the consumer observes when its pending read is settled.
Settled(r, v) ==
    /\ rs' = r.rs
    /\ delivered' = IF r.settle = "chunk" THEN Append(delivered, v) ELSE delivered
    /\ outcome' = CASE r.settle = "done" -> "eos"
                    [] r.settle = "error" -> "error"
                    [] OTHER -> outcome

\* ------------------------------------------------------------- pull and take
\* pull() is called and calls take(), lines 200-206: a failed stream throws the
\* stored error, else the wait timeout is armed and take awaits readyFuture.
Pull ==
    /\ pullPc = "idle"
    /\ ShouldCallPull(rs)
    /\ IF state = "failed"
       THEN /\ Settled(ControllerError(rs, error), Undefined)
            /\ UNCHANGED <<pullPc, waitTimeout>>
       ELSE /\ pullPc' = "awaitReady"
            /\ waitTimeout' = ~readyFuture
            /\ UNCHANGED <<rs, delivered, outcome>>
    /\ UNCHANGED <<libVars, optVars, srvVars, ingestVars, aborted, buffer, state, error,
                   futureVars, idleInterval, emitted, handed, requestCount,
                   lastRequest, issued, cancelVars, bodyTimedOut,
                   lastStatus, readyBy, envVars>>

\* `await readyFuture.promise()` is over; take awaits putFuture (line 207).
TakeReady ==
    /\ pullPc = "awaitReady"
    /\ readyFuture
    /\ pullPc' = "awaitPut"
    /\ UNCHANGED <<libVars, optVars, srvVars, ingestVars, aborted, buffer, state, error,
                   futureVars, timerVars, rs, delivered, outcome, emitted, handed,
                   requestCount, lastRequest, issued, cancelVars, bodyTimedOut,
                   lastStatus, readyBy, envVars>>

\* `buffer = undefined` of take().
BufferAfterTakeKept == buffer
BufferAfterTake == NoBuffer

\* `takeFuture.resolve()` of take(): the producer awaiting it is released.
ReleasedByTakeNever == ingestWake
ReleasedByTake == ingestWake \/ pc = "park"

\* `done: value == null` of a take() on the closed stream.
TakeDoneAlways(value) == TRUE
TakeDone(value) == value.undef

\* `await putFuture.promise()` of take().
PutNotAwaited == TRUE
PutAwaited == putFuture

\* `await putFuture.promise()` is over, lines 209-221, and pull() hands the result
\* to the controller, lines 372-379.
TakeResult ==
    /\ pullPc = "awaitPut"
    /\ PutAwaited
    /\ LET value == IF buffer.some
                    THEN [undef |-> FALSE, blocks |-> buffer.blocks,
                          head |-> buffer.head, tail |-> buffer.tail]
                    ELSE Undefined
           done == state = "closed" /\ TakeDone(value)
       IN  /\ buffer' = BufferAfterTake
           /\ ingestWake' = ReleasedByTake
           /\ IF state = "closed"
              THEN /\ takeFuture' = TRUE
                   /\ UNCHANGED <<readyFuture, putFuture, readyBy>>
              ELSE /\ takeFuture' = createFuture
                   /\ putFuture' = createFuture
                   /\ readyFuture' = createFuture
                   /\ readyBy' = "none"
           /\ handed' = IF done THEN handed ELSE handed \o value.blocks
           /\ IF done
              THEN Settled(ControllerClose(rs), value)
              ELSE Settled(ControllerEnqueue(rs, value), value)
    /\ pullPc' = "idle"
    /\ UNCHANGED <<libVars, optVars, srvVars, pc, fromBlock, reader, resHead, thrown, aborted,
                   state, error, timerVars, emitted, requestCount, lastRequest, issued,
                   cancelVars, bodyTimedOut,
                   lastStatus, envVars>>

\* -------------------------------------------------------------- the consumer
\* The consumer reads from the stream: reader.read().
Read ==
    /\ outcome = "none"
    /\ ~rs.readRequest
    /\ CASE rs.state = "closed" ->
              /\ outcome' = "eos"
              /\ UNCHANGED <<rs, delivered>>
         [] rs.state = "errored" ->
              /\ outcome' = "error"
              /\ UNCHANGED <<rs, delivered>>
         [] rs.state = "readable" /\ rs.queue # <<>> ->
              /\ delivered' = Append(delivered, Head(rs.queue))
              /\ rs' = [rs EXCEPT !.queue = Tail(@),
                                  !.state = IF rs.closeRequested /\ Tail(rs.queue) = <<>>
                                            THEN "closed" ELSE @]
              /\ UNCHANGED outcome
         [] OTHER ->
              /\ rs' = [rs EXCEPT !.readRequest = TRUE]
              /\ UNCHANGED <<delivered, outcome>>
    /\ UNCHANGED <<libVars, optVars, srvVars, ingestVars, aborted, buffer, state, error,
                   futureVars, timerVars, pullPc, emitted, handed, requestCount,
                   lastRequest, issued, cancelVars, bodyTimedOut,
                   lastStatus, readyBy, envVars>>

\* `abortStream.abort(reason)` of the cancel handler.
AbortNever == aborted
Abort == TRUE

\* The consumer cancels the stream.  A readable stream is closed (a pending read
\* returns done, the queue is dropped) and calls cancel(reason), lines 381-383;
\* on a closed or errored stream the call has no effect (the consumer is taken
\* to call it again only after a cancel of its own).
Cancel ==
    /\ cancelCalls < MaxCancels
    /\ rs.state = "readable" \/ cancelled
    /\ cancelCalls' = cancelCalls + 1
    /\ IF rs.state = "readable"
       THEN /\ rs' = [rs EXCEPT !.state = "closed", !.queue = <<>>,
                                !.readRequest = FALSE]
            /\ outcome' = IF rs.readRequest THEN "eos" ELSE outcome
            /\ aborted' = Abort
            /\ cancelled' = TRUE
            /\ pcAtCancel' = pc
            /\ deliveredAtCancel' = Len(delivered)
       ELSE UNCHANGED <<rs, outcome, aborted, cancelled, pcAtCancel,
                        deliveredAtCancel>>
    /\ UNCHANGED <<libVars, optVars, srvVars, ingestVars, buffer, state, error, futureVars,
                   timerVars, pullPc, delivered, emitted, handed, requestCount,
                   lastRequest, issued, bodyTimedOut,
                   lastStatus, readyBy, envVars>>

\* --------------------------------------------------------------------- Next
Next ==
    \/ HeightResponse
    \/ Response200
    \/ Response204
    \/ RequestFails
    \/ WaitDone
    \/ ReadChunk
    \/ ReadMalformed
    \/ ReadDone
    \/ ReadFails
    \/ TakeReleased
    \/ AbortReject
    \/ Close
    \/ Fail
    \/ IdleFire
    \/ WaitFire
    \/ Pull
    \/ TakeReady
    \/ TakeResult
    \/ Read
    \/ Cancel

Spec == Init /\ [][Next]_vars

\* The stream against a height endpoint whose answers may decrease.
NextStale == Next \/ HeightResponseStale
SpecStale == Init /\ [][NextStale]_vars

\* The stream against a server that may emit a block out of order.
NextUnordered == Next \/ ReadOutOfOrder
SpecUnordered == Init /\ [][NextUnordered]_vars

\* The stream against a height endpoint whose answer may be no number.
NextMalformedHeight == Next \/ HeightResponseMalformed
SpecMalformedHeight == Init /\ [][NextMalformedHeight]_vars

\* The stream with its tasks scheduled: a promise job that is ready runs (the end
\* of ingest, the steps of take and pull, a released or aborted await), and the
\* consumer goes on reading until a read ends the stream.
Scheduled ==
    /\ WF_vars(Close) /\ WF_vars(Fail)
    /\ WF_vars(TakeReleased) /\ WF_vars(AbortReject)
    /\ WF_vars(Pull) /\ WF_vars(TakeReady) /\ WF_vars(TakeResult)
    /\ WF_vars(Read)
SpecScheduled == Init /\ [][Next]_vars /\ Scheduled

\* The same with time passing: a timer that stays armed fires (setInterval of
\* line 245, setTimeout of line 263).
Timed == WF_vars(IdleFire) /\ WF_vars(WaitFire)
SpecTimed == Init /\ [][Next]_vars /\ Scheduled /\ Timed

\* ------------------------------------------------------------ LineSplitStream
\* The variables of the stream, which the other components leave alone.
streamVars == <<optVars, srvVars, ingestVars, aborted, buffer, state, error,
                futureVars, timerVars, rsVars, emitted, handed, requestCount,
                lastRequest, issued, cancelVars, bodyTimedOut, lastStatus, readyBy, envVars,
                configVars, queueVars>>

MaxText == 4            \* the most characters of a text written to the splitter

\* `new LineSplitStream('\n')`: the separator, and the other characters of a text.
Separator == "\n"
Alphabet == {"a", "b", Separator}
Texts == UNION {[1..n -> Alphabet] : n \in 0..MaxText}

\* `chunk.split(separator)`: the pieces between the separators, one more than
\* there are separators; `piece` is the piece being read, `pieces` those before.
RECURSIVE splitFrom(_, _, _)
splitFrom(chunk, piece, pieces) ==
    IF chunk = <<>> THEN Append(pieces, piece)
    ELSE IF Head(chunk) = Separator
         THEN splitFrom(Tail(chunk), <<>>, Append(pieces, piece))
         ELSE splitFrom(Tail(chunk), Append(piece, Head(chunk)), pieces)
split(chunk) == splitFrom(chunk, <<>>, <<>>)

\* `lines[0] = this.line + lines[0]`: the line carried over from the chunks before.
CarriedLineDropped == <<>>
CarriedLine == line

\* `this.line = lines.pop() || ''`, `result.push(...lines)`: the pieces but the last.
ButLast(lines) == SubSeq(lines, 1, Len(lines) - 1)

\* `if (this.line)` of flush: the trailing fragment is enqueued unless it is empty.
FlushEnqueuesAlways == TRUE
FlushEnqueues == line # <<>>

\* transform(chunk, controller), lines 419-429, for the next chunk of the text,
\* which ends at position k.  (An empty chunk changes nothing.)
transform ==
    /\ ~flushed
    /\ \E k \in (written + 1)..Len(decoded) :
        LET chunk == SubSeq(decoded, written + 1, k)
            lines == split(chunk)
            joined == [lines EXCEPT ![1] = CarriedLine \o @]
        IN  /\ written' = k
            /\ cuts' = cuts \cup {k}
            /\ IF Len(lines) = 1
               THEN /\ line' = line \o lines[1]
                    /\ enqueued' = enqueued
               ELSE /\ line' = Last(joined)
                    /\ enqueued' = Append(enqueued, ButLast(joined))
    /\ UNCHANGED <<streamVars, builderVars, sourceVars, decoded, flushed>>

\* flush(controller), lines 430-437, once the whole text was written.
flush ==
    /\ ~flushed
    /\ written = Len(decoded)
    /\ flushed' = TRUE
    /\ IF FlushEnqueues
       THEN /\ enqueued' = Append(enqueued, <<line>>)
            /\ line' = <<>>
       ELSE UNCHANGED <<enqueued, line>>
    /\ UNCHANGED <<streamVars, builderVars, sourceVars, decoded, written, cuts>>

\* A new splitter, and any text for the decoder to write to it.
InitLineSplit ==
    /\ StreamInit /\ ~stopOnHead /\ toBlock = Infinity
    /\ BuilderIdle /\ SourceIdle /\ ConfigIdle /\ QueueClientIdle
    /\ decoded \in Texts
    /\ written = 0
    /\ cuts = {}
    /\ line = <<>>
    /\ enqueued = <<>>
    /\ flushed = FALSE

NextLineSplit == transform \/ flush
SpecLineSplit == InitLineSplit /\ [][NextLineSplit]_vars

\* ------------------------------------------------------------ EvmQueryBuilder
MaxAdds == 2            \* the most add* calls on one builder
MaxRangeEnd == 1        \* the highest block a range given to the builder names

\* The values of a filter: a string (its characters) or a number as an element
\* of an array, and an array or a boolean flag as the value of a field.
Str(chars) == [isString |-> TRUE, chars |-> chars, num |-> 0]
Num(n) == [isString |-> FALSE, chars |-> <<>>, num |-> n]
ArrayOf(items) == [isArray |-> TRUE, items |-> items, flag |-> FALSE]
Flag(b) == [isArray |-> FALSE, items |-> <<>>, flag |-> b]

\* `s.toLowerCase()`: every upper-case letter becomes its lower-case letter.
UpperCase == <<"A", "B", "C", "D", "E", "F", "X">>
LowerCase == <<"a", "b", "c", "d", "e", "f", "x">>
IsUpper(c) == \E i \in DOMAIN UpperCase : UpperCase[i] = c
toLowerCase(chars) ==
    [i \in DOMAIN chars |->
        IF IsUpper(chars[i])
        THEN LowerCase[CHOOSE k \in DOMAIN UpperCase : UpperCase[k] = chars[i]]
        ELSE chars[i]]

\* `typeof s == 'string' ? s.toLowerCase() : s` of mapRequest.
LowerIfString(s) == IF s.isString THEN [s EXCEPT !.chars = toLowerCase(@)] ELSE s

\* mapRequest(req), lines 134-144: every array among the values of req is
\* replaced by its map; req itself, with its range, is what is returned.
mapRequestUnmapped(req) == req
mapRequest(req) ==
    [req EXCEPT !.fields =
        [key \in DOMAIN req.fields |->
            LET val == req.fields[key]
            IN  IF val.isArray
                THEN [val EXCEPT !.items =
                         [i \in DOMAIN val.items |-> LowerIfString(val.items[i])]]
                ELSE val]]

\* The ranges a caller may name: from..to, or from on without an end.
Ranges ==
    {r \in [from : 0..MaxRangeEnd, to : 0..MaxRangeEnd \cup {Infinity}] :
        r.from <= r.to}

\* The filters a caller may give, one of each kind (interfaces/data-request.ts):
\* hex strings in mixed case, numbers, and flags.
LogFilter ==
    ("address" :> ArrayOf(<<Str(<<"0", "x", "A", "b">>)>>)) @@
    ("topic0" :> ArrayOf(<<Str(<<"0", "x", "C", "D">>), Str(<<"0", "x", "e", "f">>)>>)) @@
    ("transaction" :> Flag(TRUE))
TransactionFilter ==
    ("to" :> ArrayOf(<<Str(<<"0", "X", "a", "B">>)>>)) @@
    ("type" :> ArrayOf(<<Num(2), Num(0)>>)) @@
    ("logs" :> Flag(FALSE))
TraceFilter ==
    ("type" :> ArrayOf(<<Str(<<"c", "a", "l", "l">>)>>)) @@
    ("callTo" :> ArrayOf(<<Str(<<"0", "x", "A", "B">>)>>)) @@
    ("subtraces" :> Flag(TRUE))
StateDiffFilter ==
    ("address" :> ArrayOf(<<Str(<<"0", "x", "a", "b">>)>>)) @@
    ("kind" :> ArrayOf(<<Str(<<"+">>)>>))

\* The options of an add* call: the filter and `range`, one of `among`.
Options(filter, among) == {[range |-> r, fields |-> filter] : r \in among}

\* The ranges of the calls: any range for a log filter, a range without an end
\* for a transaction filter, all blocks for a trace or a state diff filter.
OpenRanges == {r \in Ranges : r.to = Infinity}

\* A per-kind list of a DataRequest: `undefined`, or the list.
NoList == [defined |-> FALSE, items |-> <<>>]
ListOf(items) == [defined |-> TRUE, items |-> items]

\* DataRequest, data-request.ts:17-23; includeAllBlocks is true or absent.
EmptyRequest ==
    [logs |-> NoList, transactions |-> NoList, traces |-> NoList,
     stateDiffs |-> NoList, includeAllBlocks |-> FALSE]

\* `this.ranges.push({range: options.range, request: {<kind>: [mapRequest(options)]}})`
\* and `return this`.
Push(kind, options, request) ==
    /\ lastReturn # "query"
    /\ Len(ranges) < MaxAdds
    /\ ranges' = Append(ranges, [range |-> options.range, request |-> request])
    /\ calls' = Append(calls, [kind |-> kind, options |-> options])
    /\ lastReturn' = "this"
    /\ UNCHANGED <<streamVars, splitVars, sourceVars, range, built>>

addLog ==
    \E options \in Options(LogFilter, Ranges) :
        Push("logs", options,
             [EmptyRequest EXCEPT !.logs = ListOf(<<mapRequest(options)>>)])

addTransaction ==
    \E options \in Options(TransactionFilter, OpenRanges) :
        Push("transactions", options,
             [EmptyRequest EXCEPT !.transactions = ListOf(<<mapRequest(options)>>)])

addTrace ==
    \E options \in Options(TraceFilter, {Unbounded}) :
        Push("traces", options,
             [EmptyRequest EXCEPT !.traces = ListOf(<<mapRequest(options)>>)])

addStateDiff ==
    \E options \in Options(StateDiffFilter, {Unbounded}) :
        Push("stateDiffs", options,
             [EmptyRequest EXCEPT !.stateDiffs = ListOf(<<mapRequest(options)>>)])

\* setRange(range), lines 99-102.
setRange ==
    /\ lastReturn # "query"
    /\ \E r \in Ranges : range' = r
    /\ lastReturn' = "this"
    /\ UNCHANGED <<streamVars, splitVars, sourceVars, ranges, calls, built>>

\* concatRequestLists(a, b), lines 123-132: both lists in turn, and `undefined`
\* for an empty result.
concatRequestListsReversed(a, b) ==
    IF b.items \o a.items = <<>> THEN NoList ELSE ListOf(b.items \o a.items)
concatRequestLists(a, b) ==
    LET result == (IF a.defined THEN a.items ELSE <<>>)
                      \o (IF b.defined THEN b.items ELSE <<>>)
    IN  IF Len(result) = 0 THEN NoList ELSE ListOf(result)

\* The merge function build() gives to mergeRangeRequests, lines 105-115.
merge(a, b) ==
    [transactions |-> concatRequestLists(a.transactions, b.transactions),
     logs |-> concatRequestLists(a.logs, b.logs),
     traces |-> concatRequestLists(a.traces, b.traces),
     stateDiffs |-> concatRequestLists(a.stateDiffs, b.stateDiffs),
     includeAllBlocks |-> a.includeAllBlocks \/ b.includeAllBlocks]

\* The range algebra of util-internal-range: the intersection of two ranges,
\* which is empty when its from is above its to.
rangeIntersection(a, b) == [from |-> Max(a.from, b.from), to |-> Min(a.to, b.to)]
IsEmptyRange(r) == r.from > r.to
Covers(r, s) == r.from <= s.from /\ s.to <= r.to

\* applyRangeBound(requests, bound): every entry with its range intersected with
\* the bound, in order, the entries that become empty dropped.
RECURSIVE applyRangeBound(_, _)
applyRangeBound(requests, bound) ==
    IF requests = <<>> THEN <<>>
    ELSE LET i == rangeIntersection(Head(requests).range, bound)
             rest == applyRangeBound(Tail(requests), bound)
         IN  IF IsEmptyRange(i) THEN rest
             ELSE <<[range |-> i, request |-> Head(requests).request]>> \o rest

\* The elements of a set of numbers in ascending order.
RECURSIVE Ascending(_)
Ascending(S) ==
    IF S = {} THEN <<>>
    ELSE LET m == CHOOSE x \in S : \A y \in S : x <= y
         IN  <<m>> \o Ascending(S \ {m})

\* The points at which the ranges of the requests start, or have just ended.
Boundaries(requests) ==
    {requests[i].range.from : i \in DOMAIN requests} \cup
    {requests[i].range.to + 1 :
        i \in {j \in DOMAIN requests : requests[j].range.to # Infinity}}

\* The fold, in the order of the list, of the payloads of the requests whose
\* range covers the segment; `any` says that acc holds a payload.
RECURSIVE FoldCovering(_, _, _, _)
FoldCovering(requests, segment, acc, any) ==
    IF requests = <<>> THEN acc
    ELSE IF Covers(Head(requests).range, segment)
         THEN FoldCovering(Tail(requests), segment,
                           IF any THEN merge(acc, Head(requests).request)
                           ELSE Head(requests).request,
                           TRUE)
         ELSE FoldCovering(Tail(requests), segment, acc, any)

\* mergeRangeRequests(requests, merge): the segments between the boundaries that
\* some request covers, ascending, each with the fold of the payloads covering it.
RECURSIVE MergedFrom(_, _)
MergedFrom(points, requests) ==
    IF points = <<>> THEN <<>>
    ELSE LET segment == [from |-> Head(points),
                         to |-> IF Len(points) > 1 THEN points[2] - 1 ELSE Infinity]
             rest == MergedFrom(Tail(points), requests)
         IN  IF \E i \in DOMAIN requests : Covers(requests[i].range, segment)
             THEN <<[range |-> segment,
                     request |-> FoldCovering(requests, segment, EmptyRequest, FALSE)]>>
                      \o rest
             ELSE rest
mergeRangeRequests(requests) == MergedFrom(Ascending(Boundaries(requests)), requests)

\* build(), lines 104-120: the merged requests, clipped by this.range.
BuildWithoutMerge(requests, bound) == applyRangeBound(requests, bound)
Build(requests, bound) == applyRangeBound(mergeRangeRequests(requests), bound)

build ==
    /\ lastReturn # "query"
    /\ built' = Build(ranges, range)
    /\ lastReturn' = "query"
    /\ UNCHANGED <<streamVars, splitVars, sourceVars, range, ranges, calls>>

\* A new builder, and the calls a caller makes on it up to build().
InitBuilder ==
    /\ StreamInit /\ ~stopOnHead /\ toBlock = Infinity
    /\ SplitIdle
    /\ BuilderIdle
    /\ SourceIdle
    /\ ConfigIdle /\ QueueClientIdle

\* `let query = applyRangeBound(this.query.ranges, range)` of getBlockStream;
\* a call without a range is a call with the range of all blocks.
ClippedQueryUnbound(requests, bound) == requests
ClippedQuery(requests, bound) == applyRangeBound(requests, bound)

\* getBlockStream(range) on a data source made with the query built, up to the
\* clipping of its requests (source.ts, lines 89-94).
getBlockStream ==
    /\ lastReturn = "query"
    /\ dsPc = "idle"
    /\ outer' \in Ranges
    /\ query' = ClippedQuery(built, outer')
    /\ dsPc' = "next"
    /\ UNCHANGED <<streamVars, splitVars, builderVars, sourceRest>>

NextBuilder ==
    \/ addLog
    \/ addTransaction
    \/ addTrace
    \/ addStateDiff
    \/ setRange
    \/ build
    \/ getBlockStream
SpecBuilder == InitBuilder /\ [][NextBuilder]_vars

\* ------------------------------------------------------- the data source
\* EvmPortalDataSource.getBlockStream (evm/evm-stream/src/source.ts, lines 89-158):
\* an ingest task that opens one portal stream per range of the clipped query and
\* puts every batch it reads into a queue of one place, and the stream handed to
\* the consumer, whose pull() takes from that queue.

\* The field selections a caller may give: none, and one that selects two fields
\* and sets two of the indispensable ones to false.
UserSelections ==
    {NoFields,
     Selection({<<"block", "timestamp">>, <<"log", "address">>},
               {<<"block", "number">>, <<"stateDiff", "kind">>})}

\* The queries a caller may have built: a log filter on any range and a
\* transaction filter on a range without an end.
BuiltQueries ==
    {Build(<<[range |-> l.range,
              request |-> [EmptyRequest EXCEPT !.logs = ListOf(<<mapRequest(l)>>)]],
             [range |-> x.range,
              request |-> [EmptyRequest EXCEPT
                              !.transactions = ListOf(<<mapRequest(x)>>)]]>>,
           Unbounded) :
        l \in Options(LogFilter, Ranges), x \in Options(TransactionFilter, OpenRanges)}

\* `new EvmPortalDataSource({portal, query, fields})`, lines 75-79.
InitDataSource ==
    /\ StreamInit /\ ~stopOnHead /\ toBlock = Infinity
    /\ SplitIdle /\ ConfigIdle /\ QueueClientIdle
    /\ range = Unbounded /\ ranges = <<>> /\ calls = <<>>
    /\ lastReturn = "query"
    /\ built \in BuiltQueries
    /\ outer = Unbounded
    /\ query = <<>>
    /\ dsPc = "idle"
    /\ fields \in UserSelections
    /\ index = 0
    /\ wire = <<>>
    /\ portal = [state |-> "none", next |-> 0]
    /\ arrived = <<>>
    /\ queue = [items |-> <<>>, closed |-> FALSE]
    /\ acAborted = FALSE
    /\ out = [state |-> "readable", queue |-> <<>>, closeRequested |-> FALSE,
              readRequest |-> FALSE, storedError |-> "none"]
    /\ outPullPc = "idle"
    /\ received = <<>>
    /\ outOutcome = "none"

\* `fields: this.fields` of the wire request, line 109.
RequestFields == fields

\* The wire request of one range of the query, lines 105-111.
Request(queryRange) ==
    queryRange.request @@
    [type |-> "evm",
     fromBlock |-> queryRange.range.from,
     toBlock |-> queryRange.range.to,
     fields |-> RequestFields]

\* `for (let queryRange of query)`: the range the loop takes after i of them.
NextQueryRangeFromEnd(i) == query[Len(query) - i]
NextQueryRange(i) == query[i + 1]

\* The synchronous start of ingest is over once the first range was taken (or
\* the query was found empty); the consumer holds the stream only then.
Started == dsPc # "idle" /\ ~(dsPc = "next" /\ index = 0)

\* The top of the for loop, lines 104-116: the next range is made a request and a
\* portal stream is opened for it; after the last range ingest returns through
\* `finally` (the abort listener is removed).
NextRange ==
    /\ dsPc = "next"
    /\ IF index < Len(query)
       THEN /\ index' = index + 1
            /\ wire' = Append(wire, Request(NextQueryRange(index)))
            /\ portal' = [state |-> "open", next |-> NextQueryRange(index).range.from]
            /\ dsPc' = "read"
       ELSE /\ dsPc' = "returned"
            /\ UNCHANGED <<index, wire, portal>>
    /\ UNCHANGED <<streamVars, splitVars, builderVars, outer, query, fields, arrived,
                   queue, acAborted, out, outPullPc, received, outOutcome>>

\* `await reader.read()` yields a batch, lines 116-119: the portal stream hands
\* out the blocks of its request in ascending order, as far as the chain goes.
PortalBatch ==
    /\ dsPc = "read"
    /\ portal.state = "open"
    /\ \E k \in 1..MaxChunk :
          /\ portal.next + k - 1 <= Min(wire[index].toBlock, MaxHead)
          /\ arrived' = Append(arrived,
                                [blocks |-> [i \in 1..k |-> portal.next + i - 1]])
          /\ portal' = [portal EXCEPT !.next = @ + k]
    /\ dsPc' = "put"
    /\ UNCHANGED <<streamVars, splitVars, builderVars, outer, query, fields, index,
                   wire, queue, acAborted, out, outPullPc, received, outOutcome>>

\* `if (data.done) break`, line 117: the portal stream has delivered its last
\* block, or its reader was cancelled.
PortalDone ==
    /\ dsPc = "read"
    /\ \/ portal.state = "cancelled"
       \/ portal.state = "open" /\ portal.next > wire[index].toBlock
    /\ portal' = [portal EXCEPT !.state = "ended"]
    /\ dsPc' = "next"
    /\ UNCHANGED <<streamVars, splitVars, builderVars, outer, query, fields, index,
                   wire, arrived, queue, acAborted, out, outPullPc, received,
                   outOutcome>>

\* `await reader.read()` rejects: the portal stream failed; ingest throws through
\* `finally`.
PortalError ==
    /\ dsPc = "read"
    /\ portal.state = "open"
    /\ portal' = [portal EXCEPT !.state = "errored"]
    /\ dsPc' = "threw"
    /\ UNCHANGED <<streamVars, splitVars, builderVars, outer, query, fields, index,
                   wire, arrived, queue, acAborted, out, outPullPc, received,
                   outOutcome>>

\* AsyncQueue(1) of @subsquid/util-internal: put() waits for a free place and
\* throws on a closed queue; take() yields the oldest value, waits on an empty
\* open queue, and yields undefined on an empty closed one.
QueueHasRoom(q) == Len(q.items) < 1
QueuePut(q, v) == [q EXCEPT !.items = Append(@, v)]
QueueCanTake(q) == q.items # <<>> \/ q.closed
QueueTaken(q) == IF q.items # <<>> THEN [q EXCEPT !.items = Tail(@)] ELSE q
QueueClose(q) == [q EXCEPT !.closed = TRUE]

\* The value put for the data read, lines 119-125 (the finalized head is left out
\* here, and mapBlock keeps every block's number).
StreamData(data) == [blocks |-> data.blocks, rolledbackHeads |-> <<>>]

\* `await queue.put({finalizedHead, blocks, rolledbackHeads: []})`, lines 121-125.
Put ==
    /\ dsPc = "put"
    /\ IF queue.closed
       THEN /\ dsPc' = "threw"
            /\ UNCHANGED queue
       ELSE /\ QueueHasRoom(queue)
            /\ queue' = QueuePut(queue, StreamData(Last(arrived)))
            /\ dsPc' = "read"
    /\ UNCHANGED <<streamVars, splitVars, builderVars, outer, query, fields, index,
                   wire, portal, arrived, acAborted, out, outPullPc, received,
                   outOutcome>>

\* `ingest().then(() => { queue.close() })`, lines 135-138.
IngestReturned ==
    /\ dsPc = "returned"
    /\ dsPc' = "finished"
    /\ queue' = QueueClose(queue)
    /\ UNCHANGED <<streamVars, splitVars, builderVars, outer, query, fields, index,
                   wire, portal, arrived, acAborted, out, outPullPc, received,
                   outOutcome>>

\* What the consumer of the data source observes when its pending read settles.
OutSettled(r, v) ==
    /\ out' = r.rs
    /\ received' = IF r.settle = "chunk" THEN Append(received, v) ELSE received
    /\ outOutcome' = CASE r.settle = "done" -> "eos"
                       [] r.settle = "error" -> "error"
                       [] OTHER -> outOutcome

\* `.catch((error) => {...})`, lines 139-143.
IngestThrew ==
    /\ dsPc = "threw"
    /\ dsPc' = "finished"
    /\ IF queue.closed
       THEN UNCHANGED <<queue, out, received, outOutcome>>
       ELSE /\ queue' = QueueClose(queue)
            /\ OutSettled(ControllerError(out, "error"), <<>>)
    /\ UNCHANGED <<streamVars, splitVars, builderVars, outer, query, fields, index,
                   wire, portal, arrived, acAborted, outPullPc>>

\* The stream calls pull(), which calls `queue.take()`, line 146.
OutPull ==
    /\ Started
    /\ outPullPc = "idle"
    /\ ShouldCallPull(out)
    /\ outPullPc' = "take"
    /\ UNCHANGED <<streamVars, splitVars, builderVars, outer, query, dsPc, fields,
                   index, wire, portal, arrived, queue, acAborted, out, received,
                   outOutcome>>

\* `await queue.take()` is over, lines 147-151: a value is enqueued, undefined
\* closes the stream.
OutTake ==
    /\ outPullPc = "take"
    /\ QueueCanTake(queue)
    /\ outPullPc' = "idle"
    /\ queue' = QueueTaken(queue)
    /\ IF queue.items # <<>>
       THEN OutSettled(ControllerEnqueue(out, Head(queue.items)), Head(queue.items))
       ELSE OutSettled(ControllerClose(out), <<>>)
    /\ UNCHANGED <<streamVars, splitVars, builderVars, outer, query, dsPc, fields,
                   index, wire, portal, arrived, acAborted>>

\* The consumer of the data source reads: reader.read().
OutRead ==
    /\ Started
    /\ outOutcome = "none"
    /\ ~out.readRequest
    /\ CASE out.state = "closed" ->
              /\ outOutcome' = "eos"
              /\ UNCHANGED <<out, received>>
         [] out.state = "errored" ->
              /\ outOutcome' = "error"
              /\ UNCHANGED <<out, received>>
         [] out.state = "readable" /\ out.queue # <<>> ->
              /\ received' = Append(received, Head(out.queue))
              /\ out' = [out EXCEPT !.queue = Tail(@),
                                    !.state = IF out.closeRequested /\ Tail(out.queue) = <<>>
                                              THEN "closed" ELSE @]
              /\ UNCHANGED outOutcome
         [] OTHER ->
              /\ out' = [out EXCEPT !.readRequest = TRUE]
              /\ UNCHANGED <<received, outOutcome>>
    /\ UNCHANGED <<streamVars, splitVars, builderVars, outer, query, dsPc, fields,
                   index, wire, portal, arrived, queue, acAborted, outPullPc>>

\* The consumer cancels the stream: cancel() is `ac.abort()`, lines 153-155, and
\* the abort listener, while ingest runs, is `reader?.cancel()`, lines 96-98.
\* Ingest goes from a finished read to the next range without an await, so no
\* cancel falls between the two.
OutCancel ==
    /\ Started
    /\ dsPc # "next"
    /\ out.state = "readable"
    /\ out' = [out EXCEPT !.state = "closed", !.queue = <<>>, !.readRequest = FALSE]
    /\ outOutcome' = IF out.readRequest THEN "eos" ELSE outOutcome
    /\ acAborted' = TRUE
    /\ portal' = IF dsPc \in {"read", "put"} /\ portal.state = "open"
                 THEN [portal EXCEPT !.state = "cancelled"]
                 ELSE portal
    /\ UNCHANGED <<streamVars, splitVars, builderVars, outer, query, dsPc, fields,
                   index, wire, arrived, queue, outPullPc, received>>

NextDataSource ==
    \/ getBlockStream
    \/ NextRange
    \/ PortalBatch
    \/ PortalDone
    \/ PortalError
    \/ Put
    \/ IngestReturned
    \/ IngestThrew
    \/ OutPull
    \/ OutTake
    \/ OutRead
    \/ OutCancel
SpecDataSource == InitDataSource /\ [][NextDataSource]_vars

\* The event loop runs every continuation that is ready, and the consumer goes on
\* reading; that a portal stream fails or the consumer cancels is up to them.
DataSourceScheduled ==
    /\ WF_vars(getBlockStream) /\ WF_vars(NextRange) /\ WF_vars(PortalBatch)
    /\ WF_vars(PortalDone) /\ WF_vars(Put) /\ WF_vars(IngestReturned)
    /\ WF_vars(IngestThrew) /\ WF_vars(OutPull) /\ WF_vars(OutTake)
    /\ WF_vars(OutRead)
SpecDataSourceScheduled ==
    InitDataSource /\ [][NextDataSource]_vars /\ DataSourceScheduled

\* ------------------------------------------------- the options of a stream
\* PortalClient's constructor (client.ts, lines 61-69), getFinalizedStream's
\* defaults (lines 116-136) and createReadablePortalStream's first two lines:
\* how minBytes and maxBytes of a stream come about.
MaxOption == 3          \* the largest number of bytes given as an option

\* What a caller may give for minBytes or maxBytes: nothing, or a number.
OptionValues == {Absent} \cup {Given(v) : v \in 0..MaxOption}
BytesOptions == [minBytes : OptionValues, maxBytes : OptionValues]

\* `a ?? b`
OrElse(a, b) == IF a.given THEN a.value ELSE b

\* `40 * 1024 * 1024`, the default of minBytes.
DefaultMinBytes == 40 * 1024 * 1024

InitOptions ==
    /\ StreamInit /\ ~stopOnHead /\ toBlock = Infinity
    /\ SplitIdle /\ BuilderIdle /\ SourceIdle /\ QueueClientIdle
    /\ clientOptions \in BytesOptions
    /\ client = [minBytes |-> 0, maxBytes |-> 0]
    /\ streamOptions = [minBytes |-> Absent, maxBytes |-> Absent]
    /\ effective = [minBytes |-> 0, maxBytes |-> 0]
    /\ optionsPc = "new"

\* `new PortalClient(options)`, lines 66-67.
constructor ==
    /\ optionsPc = "new"
    /\ LET thisMinBytes == OrElse(clientOptions.minBytes, DefaultMinBytes)
       IN  client' = [minBytes |-> thisMinBytes,
                      maxBytes |-> OrElse(clientOptions.maxBytes, thisMinBytes)]
    /\ optionsPc' = "client"
    /\ UNCHANGED <<optVars, srvVars, ingestVars, aborted, buffer, state, error,
                   futureVars, timerVars, rsVars, emitted, handed, requestCount,
                   lastRequest, issued, cancelVars, bodyTimedOut, lastStatus, readyBy,
                   envVars, splitVars, builderVars, sourceVars, queueVars, clientOptions,
                   streamOptions, effective>>

\* getFinalizedStream(query, options), lines 116-136: an option not given is
\* the client's.
getFinalizedStream ==
    /\ optionsPc = "client"
    /\ streamOptions' \in BytesOptions
    /\ effective' = [minBytes |-> OrElse(streamOptions'.minBytes, client.minBytes),
                     maxBytes |-> OrElse(streamOptions'.maxBytes, client.maxBytes)]
    /\ optionsPc' = "options"
    /\ UNCHANGED <<optVars, srvVars, ingestVars, aborted, buffer, state, error,
                   futureVars, timerVars, rsVars, emitted, handed, requestCount,
                   lastRequest, issued, cancelVars, bodyTimedOut, lastStatus, readyBy,
                   envVars, splitVars, builderVars, sourceVars, queueVars, clientOptions,
                   client>>

\* createReadablePortalStream(query, options, requestStream), lines 183-184.
createReadablePortalStream ==
    /\ optionsPc = "options"
    /\ effective' = [effective EXCEPT
                        !.maxBytes = EffectiveMaxBytes(@, effective.minBytes)]
    /\ optionsPc' = "stream"
    /\ UNCHANGED <<optVars, srvVars, ingestVars, aborted, buffer, state, error,
                   futureVars, timerVars, rsVars, emitted, handed, requestCount,
                   lastRequest, issued, cancelVars, bodyTimedOut, lastStatus, readyBy,
                   envVars, splitVars, builderVars, sourceVars, queueVars, clientOptions,
                   client, streamOptions>>

NextOptions == constructor \/ getFinalizedStream \/ createReadablePortalStream
SpecOptions == InitOptions /\ [][NextOptions]_vars

\* ------------------------------------------- the client built on AsyncQueue
\* PortalClient.getFinalizedStream of the variant of client.ts, lines 548-657:
\* ingest pipes every response body into a BlocksBuffer (lines 663-705), whose
\* queue of one place pull() takes from; a HeartBeat (lines 727-743) watches the
\* body for silence.

\* `this.bufferThreshold`, lines 502 and 552, in the unit of LineLength.
bufferThreshold == 2

\* `{...query, fromBlock: startBlock}`, line 574.
ArchiveQuery(sb) == [portalQuery EXCEPT !.fromBlock = sb]

\* `query.toBlock ?? Infinity`, line 567.
EndBlock == portalQuery.toBlock

\* AsyncQueue.forcePut of @subsquid/util-internal: the value takes the place of
\* the queue whether it is free or not.  The value is the array `this.blocks`
\* itself, so what a later take() yields is that array as it then is.
QueueForcePut(q, v) == [q EXCEPT !.items = <<v>>]

\* BlocksBuffer.ready(), lines 692-695.
BufferReady(b) ==
    IF b.blocks = <<>> THEN b ELSE [b EXCEPT !.queue = QueueForcePut(@, "this.blocks")]

\* The loop of BlocksBuffer.put(lines), lines 671-674.
BufferPushed(b, lines) ==
    [b EXCEPT !.blocks = @ \o lines, !.size = @ + SumLength(lines)]

\* `if (diff > this.newBlockTimeout) abortStream.abort()`, lines 594-596.
AbortAfterSilence == TRUE

\* getFinalizedStream(query, options), lines 548-657: start() runs ingest up to
\* its first await, the POST of the first request.
InitQueueClient ==
    /\ StreamInit /\ ~stopOnHead
    /\ SplitIdle /\ BuilderIdle /\ SourceIdle /\ ConfigIdle
    /\ startBlock = portalQuery.fromBlock
    /\ archiveQueries = <<ArchiveQuery(portalQuery.fromBlock)>>
    /\ abortStream = FALSE
    /\ ac = FALSE
    /\ heartbeat = FALSE
    /\ blocksBuffer = [blocks |-> <<>>, size |-> 0,
                       queue |-> [items |-> <<>>, closed |-> FALSE]]
    /\ ingestPc = "request"
    /\ body = 0
    /\ stream = [state |-> "readable", queue |-> <<>>, closeRequested |-> FALSE,
                 readRequest |-> FALSE, storedError |-> "none"]
    /\ streamPullPc = "idle"
    /\ taken = <<>>
    /\ ended = "none"
    /\ timedOut = FALSE
    /\ streamCancelled = FALSE

\* The variables of the futures-based stream, which this client does not touch.
otherVars == <<optVars, srvVars, ingestVars, aborted, buffer, state, error,
               futureVars, timerVars, rsVars, emitted, handed, requestCount,
               lastRequest, issued, cancelVars, bodyTimedOut, lastStatus, readyBy,
               envVars, splitVars, builderVars, sourceVars, configVars>>

\* `finally` (lines 626-629: heartbeat?.stop(), buffer.ready()) and the test of
\* the while loop (line 569) with the start of the next turn (lines 570-581):
\* a new AbortController, and the POST of the query from startBlock on.
NextTurn(sb) ==
    /\ heartbeat' = FALSE
    /\ blocksBuffer' = BufferReady(blocksBuffer)
    /\ IF sb <= EndBlock /\ ~abortStream
       THEN /\ Len(archiveQueries) < MaxRequests + 1
            /\ archiveQueries' = Append(archiveQueries, ArchiveQuery(sb))
            /\ ac' = FALSE
            /\ ingestPc' = "request"
       ELSE /\ ingestPc' = "returned"
            /\ UNCHANGED <<archiveQueries, ac>>

\* The POST answers 200, lines 593-596: a HeartBeat is started and the body is
\* piped into the buffer.
Status200 ==
    /\ ingestPc = "request"
    /\ ~abortStream
    /\ heartbeat' = TRUE
    /\ body' = startBlock
    /\ ingestPc' = "pipe"
    /\ UNCHANGED <<otherVars, startBlock, archiveQueries, abortStream, ac,
                   blocksBuffer, stream, streamPullPc, taken, ended, timedOut,
                   streamCancelled>>

\* The POST answers 204, lines 588-591: ingest waits headPollInterval.
Status204 ==
    /\ ingestPc = "request"
    /\ ~abortStream
    /\ ingestPc' = "wait"
    /\ UNCHANGED <<otherVars, startBlock, archiveQueries, abortStream, ac, heartbeat,
                   blocksBuffer, body, stream, streamPullPc, taken, ended, timedOut,
                   streamCancelled>>

\* `await wait(...)` is over; `continue` goes through `finally`.
Waited ==
    /\ ingestPc = "wait"
    /\ ~abortStream
    /\ NextTurn(startBlock)
    /\ UNCHANGED <<otherVars, startBlock, abortStream, body, stream, streamPullPc,
                   taken, ended, timedOut, streamCancelled>>

\* The POST fails: neither signal is aborted, so the catch rethrows,
\* lines 618-625.
RequestError ==
    /\ ingestPc = "request"
    /\ ~abortStream /\ ~ac
    /\ heartbeat' = FALSE
    /\ blocksBuffer' = BufferReady(blocksBuffer)
    /\ ingestPc' = "threw"
    /\ UNCHANGED <<otherVars, startBlock, archiveQueries, abortStream, ac, body,
                   stream, streamPullPc, taken, ended, timedOut, streamCancelled>>

\* A line batch comes through the pipe, lines 598-614 and 670-684: the
\* heartbeat ticks, the lines are pushed into the buffer, and over the
\* threshold the buffer is made ready and put() waits for the queue.
Write ==
    /\ ingestPc = "pipe"
    /\ ~abortStream
    /\ \E lines \in Chunks(body, Min(EndBlock, MaxHead)) :
          /\ body' = Last(lines) + 1
          /\ LET pushed == BufferPushed(blocksBuffer, lines)
             IN  IF pushed.size > bufferThreshold
                 THEN /\ blocksBuffer' = BufferReady(pushed)
                      /\ ingestPc' = "write"
                      /\ UNCHANGED startBlock
                 ELSE /\ blocksBuffer' = pushed
                      /\ startBlock' = Last(pushed.blocks) + 1
                      /\ UNCHANGED ingestPc
    /\ UNCHANGED <<otherVars, archiveQueries, abortStream, ac, heartbeat, stream,
                   streamPullPc, taken, ended, timedOut, streamCancelled>>

\* `await this.queue.wait()` is over, lines 680 and 608-609: the queue has room
\* again, and write() sets startBlock.  The buffer was emptied by the take, so
\* the last block is the one before the body's next.
Written ==
    /\ ingestPc = "write"
    /\ QueueHasRoom(blocksBuffer.queue)
    /\ startBlock' = body
    /\ ingestPc' = "pipe"
    /\ UNCHANGED <<otherVars, archiveQueries, abortStream, ac, heartbeat,
                   blocksBuffer, body, stream, streamPullPc, taken, ended, timedOut,
                   streamCancelled>>

\* The body ends and pipeTo resolves, lines 598-614.
BodyEnd ==
    /\ ingestPc = "pipe"
    /\ ~abortStream
    /\ NextTurn(startBlock)
    /\ UNCHANGED <<otherVars, startBlock, abortStream, body, stream, streamPullPc,
                   taken, ended, timedOut, streamCancelled>>

\* The interval of the HeartBeat finds no chunk for longer than
\* newBlockTimeout, lines 594-596 and 731-734.
HeartBeatTimeout ==
    /\ heartbeat
    /\ ingestPc \in {"pipe", "write"}
    /\ ~abortStream
    /\ abortStream' = AbortAfterSilence
    /\ timedOut' = TRUE
    /\ UNCHANGED <<otherVars, startBlock, archiveQueries, ac, heartbeat, blocksBuffer,
                   ingestPc, body, stream, streamPullPc, taken, ended,
                   streamCancelled>>

\* The request, the wait or the pipe rejects on the aborted signal; the catch
\* swallows the error (lines 618-620), and `finally` and the loop test follow.
Aborted ==
    /\ ingestPc \in {"request", "wait", "pipe"}
    /\ abortStream
    /\ NextTurn(startBlock)
    /\ UNCHANGED <<otherVars, startBlock, abortStream, body, stream, streamPullPc,
                   taken, ended, timedOut, streamCancelled>>

\* What the consumer of this stream observes when its pending read settles.
StreamSettled(r, v) ==
    /\ stream' = r.rs
    /\ taken' = IF r.settle = "chunk" THEN Append(taken, v) ELSE taken
    /\ ended' = CASE r.settle = "done" -> "eos"
                  [] r.settle = "error" -> "error"
                  [] OTHER -> ended

\* `ingest().then(() => { buffer.close() })`, lines 634-637.
Returned ==
    /\ ingestPc = "returned"
    /\ ingestPc' = "finished"
    /\ blocksBuffer' = [blocksBuffer EXCEPT !.queue = QueueClose(@)]
    /\ UNCHANGED <<otherVars, startBlock, archiveQueries, abortStream, ac, heartbeat,
                   body, stream, streamPullPc, taken, ended, timedOut,
                   streamCancelled>>

\* `.catch((error) => {...})`, lines 638-642.
Threw ==
    /\ ingestPc = "threw"
    /\ ingestPc' = "finished"
    /\ IF blocksBuffer.queue.closed
       THEN UNCHANGED <<blocksBuffer, stream, taken, ended>>
       ELSE /\ StreamSettled(ControllerError(stream, "error"), <<>>)
            /\ blocksBuffer' = [blocksBuffer EXCEPT !.queue = QueueClose(@)]
    /\ UNCHANGED <<otherVars, startBlock, archiveQueries, abortStream, ac, heartbeat,
                   body, streamPullPc, timedOut, streamCancelled>>

\* The stream calls pull(), which calls buffer.take(), line 645.
StreamPull ==
    /\ streamPullPc = "idle"
    /\ ShouldCallPull(stream)
    /\ streamPullPc' = "take"
    /\ UNCHANGED <<otherVars, startBlock, archiveQueries, abortStream, ac, heartbeat,
                   blocksBuffer, ingestPc, body, stream, taken, ended, timedOut,
                   streamCancelled>>

\* `await this.queue.take()` is over, lines 686-690 and 646-653: the buffer is
\* emptied; a value is enqueued, undefined closes the stream.
StreamTake ==
    /\ streamPullPc = "take"
    /\ QueueCanTake(blocksBuffer.queue)
    /\ streamPullPc' = "idle"
    /\ blocksBuffer' = [blocksBuffer EXCEPT !.queue = QueueTaken(@),
                                            !.blocks = <<>>, !.size = 0]
    /\ IF blocksBuffer.queue.items # <<>>
       THEN StreamSettled(ControllerEnqueue(stream, [blocks |-> blocksBuffer.blocks]),
                          [blocks |-> blocksBuffer.blocks])
       ELSE StreamSettled(ControllerClose(stream), <<>>)
    /\ UNCHANGED <<otherVars, startBlock, archiveQueries, abortStream, ac, heartbeat,
                   ingestPc, body, timedOut, streamCancelled>>

\* The consumer reads: reader.read().
StreamRead ==
    /\ ended = "none"
    /\ ~stream.readRequest
    /\ CASE stream.state = "closed" ->
              /\ ended' = "eos"
              /\ UNCHANGED <<stream, taken>>
         [] stream.state = "errored" ->
              /\ ended' = "error"
              /\ UNCHANGED <<stream, taken>>
         [] stream.state = "readable" /\ stream.queue # <<>> ->
              /\ taken' = Append(taken, Head(stream.queue))
              /\ stream' = [stream EXCEPT
                               !.queue = Tail(@),
                               !.state = IF stream.closeRequested
                                            /\ Tail(stream.queue) = <<>>
                                         THEN "closed" ELSE @]
              /\ UNCHANGED ended
         [] OTHER ->
              /\ stream' = [stream EXCEPT !.readRequest = TRUE]
              /\ UNCHANGED <<taken, ended>>
    /\ UNCHANGED <<otherVars, startBlock, archiveQueries, abortStream, ac, heartbeat,
                   blocksBuffer, ingestPc, body, streamPullPc, timedOut,
                   streamCancelled>>

\* The consumer cancels the stream: cancel() is `abortStream.abort()`,
\* lines 655-657.
StreamCancel ==
    /\ stream.state = "readable"
    /\ stream' = [stream EXCEPT !.state = "closed", !.queue = <<>>,
                                !.readRequest = FALSE]
    /\ ended' = IF stream.readRequest THEN "eos" ELSE ended
    /\ abortStream' = TRUE
    /\ streamCancelled' = TRUE
    /\ UNCHANGED <<otherVars, startBlock, archiveQueries, ac, heartbeat, blocksBuffer,
                   ingestPc, body, streamPullPc, taken, timedOut>>

NextQueueClient ==
    \/ Status200
    \/ Status204
    \/ Waited
    \/ RequestError
    \/ Write
    \/ Written
    \/ BodyEnd
    \/ HeartBeatTimeout
    \/ Aborted
    \/ Returned
    \/ Threw
    \/ StreamPull
    \/ StreamTake
    \/ StreamRead
    \/ StreamCancel
SpecQueueClient == InitQueueClient /\ [][NextQueueClient]_vars

\* ================================================================== claims
\* The fromBlock the next request must carry: query.fromBlock, or the number of
\* the last block received plus one.
ResumePoint == IF emitted = <<>> THEN QueryFromBlock ELSE Last(emitted) + 1

\* C1: at every moment the blocks of the batches delivered so far, in order, are a
\* prefix of the blocks the server emitted over all 200 responses, and their
\* numbers are strictly increasing within and across batches (no block twice,
\* skipped or reordered).
C1_DeliveredIsPrefix ==
    /\ IsPrefix(Flatten(delivered), emitted)
    /\ StrictlyIncreasing(Flatten(delivered))

\* C1 witness: blocks received over two responses were delivered in two batches.
C1_Witness ==
    /\ requestCount = 2
    /\ Len(delivered) >= 2
    /\ Len(emitted) >= 2
    /\ Flatten(delivered) = emitted

\* C2: when a stream ends without cancel and without an error (fromBlock > toBlock,
\* or a 204 with stopOnHead), a pull returns end-of-stream only once take() has
\* handed out every block received and the buffer is empty, and the consumer that
\* sees end-of-stream has received every emitted block exactly once.
C2_AllDeliveredBeforeEnd ==
    /\ rs.closeRequested => (handed = emitted /\ ~buffer.some)
    /\ (outcome = "eos" /\ ~cancelled /\ ~bodyTimedOut) =>
            (Flatten(delivered) = emitted /\ StrictlyIncreasing(emitted))

\* C2 witness: the consumer saw end-of-stream after receiving all blocks of a
\* bounded query, the last batch handed out after ingest had ended.
C2_Witness ==
    /\ outcome = "eos" /\ ~cancelled /\ ~bodyTimedOut
    /\ toBlock = QueryToBlock
    /\ Len(emitted) >= 2
    /\ Len(delivered) >= 2

\* C3 (as claimed): a body read that fails with HttpBodyTimeoutError does not end
\* ingest: the loop goes on to the next request, with fromBlock one past the last
\* block received.
C3_TimeoutRestartsRequest ==
    [][(bodyTimedOut' /\ ~bodyTimedOut) =>
            (pc' = "height" /\ fromBlock' = ResumePoint)]_vars

\* C4: every request carries fromBlock = query.fromBlock when nothing was received
\* yet, else the number of the last block received plus one; so the blocks
\* received over all responses never repeat.
C4_ResumeAtNextBlock ==
    /\ pc \in {"height", "request"} => fromBlock = ResumePoint
    /\ pc = "request" => lastRequest = ResumePoint
    /\ StrictlyIncreasing(emitted)

\* C4 witness: a second request is in flight after a response that ended early.
C4_Witness ==
    /\ pc = "request"
    /\ requestCount = 2
    /\ emitted # <<>>
    /\ lastRequest = Last(emitted) + 1
    /\ lastRequest <= toBlock

\* C5: while the buffer holds maxBytes or more, the ingest task is parked on the
\* take (or has ended): it reads and appends nothing until take() released it.
C5_Backpressure ==
    (buffer.some /\ buffer.bytes >= maxBytes) =>
        /\ pc \in {"park", "returned", "threw", "finished"}
        /\ pc = "park" => ~ingestWake

\* C5 witness: the producer is parked on a full buffer while the consumer has not
\* read the batch already queued in the stream.
C5_Witness ==
    /\ pc = "park"
    /\ buffer.bytes >= maxBytes
    /\ Len(rs.queue) = 1
    /\ ~aborted

\* C6: a take() that completes on the open stream returns the whole buffer as one
\* batch, leaves the buffer absent, renews the ready, put and take futures
\* (unresolved), and releases a producer parked on backpressure.
C6_Handoff ==
    [][(pullPc = "awaitPut" /\ pullPc' = "idle" /\ state = "open") =>
            /\ handed' = handed \o buffer.blocks
            /\ CanCloseOrEnqueue(rs) =>
                   Flatten(delivered') \o Flatten(rs'.queue)
                       = Flatten(delivered) \o Flatten(rs.queue) \o buffer.blocks
            /\ buffer' = NoBuffer
            /\ ~readyFuture' /\ ~putFuture' /\ ~takeFuture'
            /\ pc = "park" => ingestWake']_vars

\* C6 witness: a take has just emptied the buffer and released the parked producer.
C6_Witness ==
    /\ pc = "park" /\ ingestWake
    /\ state = "open"
    /\ ~buffer.some
    /\ ~readyFuture /\ ~putFuture
    /\ handed # <<>>

\* C7 (as claimed): once the error is stored, a pull that completes -- also one
\* that was pending when ingest failed -- reports the error to the stream and
\* hands out no batch.
C7_FailureReportedByPull ==
    [][(state = "failed" /\ pullPc # "idle" /\ pullPc' = "idle") =>
            /\ handed' = handed
            /\ rs'.queue = rs.queue /\ delivered' = delivered
            /\ rs.state = "readable" =>
                   (rs'.state = "errored" /\ rs'.storedError = error)]_vars

C10_CancelInAnySuspension ==
    /\ [][aborted => requestCount' = requestCount]_vars
    /\ [](cancelled /\ pcAtCancel \in Suspended =>
            /\ state # "failed"
            /\ pc # "threw"
            /\ pc = "finished" => state = "closed")
    /\ [][(cancelled /\ cancelCalls' # cancelCalls) =>
            UNCHANGED <<optVars, srvVars, ingestVars, aborted, buffer, state, error,
                        futureVars, timerVars, rsVars, emitted, handed, requestCount,
                        lastRequest, issued, cancelled, pcAtCancel, deliveredAtCancel,
                        bodyTimedOut>>]_vars

\* C10 witness: cancel arrived while ingest was parked on backpressure; ingest has
\* ended, the stream is closed and cancel was called a second time.
C10_Witness ==
    /\ cancelled
    /\ pcAtCancel = "park"
    /\ pc = "finished"
    /\ state = "closed"
    /\ cancelCalls = 2

\* C11: a 204 answer delivers nothing and leaves fromBlock alone; without
\* stopOnHead ingest sleeps headPollInterval and then issues the request again
\* with the same fromBlock; with stopOnHead ingest ends without an error, and a
\* consumer that then sees end-of-stream has received every block.
C11_NoContent ==
    /\ [][(lastStatus' = 204 /\ lastStatus # 204) =>
            /\ pc' = IF stopOnHead THEN "returned" ELSE "sleep"
            /\ fromBlock' = fromBlock
            /\ buffer' = buffer /\ handed' = handed
            /\ rs' = rs /\ delivered' = delivered
            /\ UNCHANGED futureVars]_vars
    /\ [][(pc = "sleep" /\ pc' # "sleep" /\ ~aborted) =>
            (pc' = "height" /\ fromBlock' = fromBlock)]_vars
    /\ [][(lastStatus = 204 /\ requestCount' # requestCount) =>
            (~stopOnHead /\ lastRequest' = lastRequest)]_vars
    /\ []((lastStatus = 204 /\ stopOnHead) =>
            /\ pc \in {"returned", "finished"}
            /\ thrown = "none" /\ state # "failed" /\ outcome # "error"
            /\ (outcome = "eos" /\ ~cancelled) => Flatten(delivered) = emitted)

\* C11 witness: the blocks of a first response were delivered, the next request
\* was answered 204, and ingest has slept and is about to request again.
C11_Witness ==
    /\ lastStatus = 204
    /\ ~stopOnHead
    /\ pc = "height"
    /\ emitted # <<>>
    /\ Flatten(delivered) = emitted

\* C12: a buffer that an append has brought to minBytes or more is ready at the
\* end of that ingest step: readyFuture and putFuture are resolved and no timer
\* is left armed, so a take proceeds without another chunk or a timer.  (An
\* append cut short by a line that does not parse ends ingest instead.)
C12_ReadyAtMinBytes ==
    (buffer.some /\ buffer.bytes >= minBytes /\ pc # "threw") =>
        /\ readyFuture /\ putFuture
        /\ ~idleInterval /\ ~waitTimeout

\* C12 witness: a pending take has passed readyFuture, resolved by the append that
\* reached minBytes, while the body is still being read.
C12_Witness ==
    /\ readyBy = "bytes"
    /\ pullPc = "awaitPut"
    /\ buffer.bytes >= minBytes
    /\ state = "open"
    /\ pc = "read"

\* The bytes of a batch: the sum of the lengths of the lines of its blocks.
BatchBytes(batch) == SumLength(batch.blocks)

\* C13 (as claimed): no delivered batch exceeds maxBytes by more than the length of
\* its last line.
C13_OvershootAtMostLastLine ==
    \A i \in 1..Len(delivered) :
        delivered[i].blocks # <<>> =>
            BatchBytes(delivered[i]) - maxBytes
                <= LineLength(Last(delivered[i].blocks))

\* C13 (amended): a line batch is only appended to a buffer below maxBytes, so no
\* delivered batch exceeds maxBytes by as much as the bytes of the line batch
\* appended to it last, however many lines that batch carries.
C13_OvershootBelowLastChunk ==
    /\ \A i \in 1..Len(delivered) :
           delivered[i].blocks # <<>> =>
               BatchBytes(delivered[i]) - delivered[i].tail < maxBytes
    /\ buffer.blocks # <<>> => buffer.bytes - buffer.tail < maxBytes

\* C13 witness: a delivered batch whose last line batch carried two lines exceeds
\* maxBytes by more than the length of its last line.
C13_Witness ==
    \E i \in 1..Len(delivered) :
        /\ delivered[i].blocks # <<>>
        /\ BatchBytes(delivered[i]) - maxBytes
               > LineLength(Last(delivered[i].blocks))
        /\ delivered[i].tail > LineLength(Last(delivered[i].blocks))

\* C14: while blocks wait in a buffer that is not ready, the idle interval is
\* armed; when it fires the buffer holds blocks, and readyFuture and putFuture
\* are then both resolved, so a pending take completes; the take that follows an
\* idle trigger hands out a batch that is not empty (on the closed stream a later
\* take finds no buffer and returns end-of-stream, which is no batch).
C14_IdleTimer ==
    /\ []((idleInterval /\ TimersMayFire) =>
            /\ buffer.blocks # <<>> /\ buffer.bytes < minBytes
            /\ ~readyFuture /\ putFuture)
    /\ []((buffer.blocks # <<>> /\ state = "open" /\ TimersMayFire) =>
            (idleInterval \/ readyFuture))
    /\ [][(readyBy' = "idle" /\ readyBy # "idle") =>
            /\ buffer.blocks # <<>> /\ buffer' = buffer
            /\ readyFuture' /\ putFuture'
            /\ ~idleInterval' /\ ~waitTimeout']_vars
    /\ [][(readyBy = "idle" /\ pullPc = "awaitPut" /\ pullPc' = "idle") =>
            \/ buffer.blocks # <<>> /\ handed' = handed \o buffer.blocks
            \/ state = "closed" /\ ~buffer.some /\ handed' = handed]_vars

\* C14 witness: mid-response the idle interval has fired on a buffer below
\* minBytes, and the pending take has passed readyFuture.
C14_Witness ==
    /\ readyBy = "idle"
    /\ pullPc = "awaitPut"
    /\ buffer.blocks # <<>>
    /\ buffer.bytes < minBytes
    /\ pc = "read"
    /\ state = "open"

\* C15: while a take waits for readyFuture the wait timeout is armed; when it
\* fires readyFuture is resolved whatever the buffer holds, but a take on the open
\* stream completes only once putFuture is resolved too, which is the case only
\* over a non-empty buffer: the take that follows a wait trigger hands out the
\* buffered blocks, also below minBytes, and never an empty batch.  (What a take
\* returns once ingest has failed is the subject of C7.)
C15_WaitTimer ==
    /\ []((pullPc = "awaitReady" /\ ~readyFuture /\ TimersMayFire) => waitTimeout)
    /\ []((readyFuture /\ putFuture /\ state = "open") => buffer.blocks # <<>>)
    /\ [][(readyBy' = "wait" /\ readyBy # "wait") =>
            /\ pullPc = "awaitReady" /\ buffer' = buffer
            /\ readyFuture' /\ putFuture' = putFuture
            /\ ~idleInterval' /\ ~waitTimeout']_vars
    /\ [][(readyBy = "wait" /\ pullPc = "awaitPut" /\ pullPc' = "idle"
                /\ state # "failed") =>
            \/ buffer.blocks # <<>> /\ handed' = handed \o buffer.blocks
            \/ state = "closed" /\ ~buffer.some /\ handed' = handed]_vars

\* C15 witness: the wait timeout fired on an empty buffer, the take stayed pending
\* on putFuture, and a first chunk below minBytes has now made it completable.
C15_Witness ==
    /\ readyBy = "wait"
    /\ pullPc = "awaitPut"
    /\ putFuture
    /\ buffer.blocks # <<>>
    /\ buffer.bytes < minBytes
    /\ buffer.bytes = buffer.tail
    /\ pc = "read"
    /\ state = "open"

\* C16: when the body of a response ends over a buffer, that step resolves
\* readyFuture (putFuture is resolved already) and destroys the timers, before
\* any further request: between two responses a buffer that holds blocks is
\* always ready for a take.
C16_TailReady ==
    /\ [][(reader' = "ended" /\ reader # "ended" /\ buffer.some) =>
            /\ readyFuture' /\ putFuture'
            /\ ~idleInterval' /\ ~waitTimeout'
            /\ buffer' = buffer
            /\ requestCount' = requestCount]_vars
    /\ []((pc \in {"height", "request", "sleep"} /\ buffer.blocks # <<>>
                /\ state = "open") =>
            readyFuture /\ putFuture)

\* C16 witness: a second request is in flight while a pending take has passed
\* readyFuture, resolved by the end of the first body over a tail below minBytes.
C16_Witness ==
    /\ readyBy = "end"
    /\ pc = "request"
    /\ requestCount = 2
    /\ buffer.blocks # <<>>
    /\ buffer.bytes < minBytes
    /\ pullPc = "awaitPut"

\* The finalizedHead numbers of the batches delivered, in order (a delivered
\* `undefined` carries none).
RECURSIVE DeliveredHeads(_)
DeliveredHeads(batches) ==
    IF batches = <<>> THEN <<>>
    ELSE (IF Head(batches).undef THEN <<>> ELSE <<Head(batches).head>>)
             \o DeliveredHeads(Tail(batches))

NonDecreasing(s) == \A i \in 1..(Len(s) - 1) : s[i] <= s[i + 1]

C18_HeadCoversBlocks ==
    \A i \in 1..Len(delivered) :
        ~delivered[i].undef =>
            \A j \in 1..Len(delivered[i].blocks) :
                delivered[i].blocks[j] <= delivered[i].head

\* C19: a POST answered with a status other than 200 and 204 makes requestStream
\* throw: ingest ends with that error and issues no further request, fail() stores
\* it with state 'failed', the stream never closes normally, and the pull that
\* finds the state failed errors the stream with the stored error, which is the
\* only way a read of the consumer then ends (short of a cancel).
C19_OtherStatusIsFatal ==
    /\ [][(lastStatus' = 500 /\ lastStatus # 500) =>
            (pc' = "threw" /\ thrown' = "status")]_vars
    /\ [][lastStatus = 500 => requestCount' = requestCount]_vars
    /\ [](lastStatus = 500 =>
            /\ pc \in {"threw", "finished"}
            /\ pc = "finished" => (state = "failed" /\ error = "status")
            /\ ~rs.closeRequested
            /\ (outcome # "none" /\ ~cancelled) =>
                   (outcome = "error" /\ rs.storedError = "status"))
    /\ [][(state = "failed" /\ rs'.state = "errored" /\ rs.state # "errored") =>
            rs'.storedError = error]_vars

\* C19 witness: the blocks of a first response were delivered, the second request
\* was answered with another status, and the consumer's read has ended in the error.
C19_Witness ==
    /\ lastStatus = 500
    /\ requestCount = 2
    /\ emitted # <<>>
    /\ Flatten(delivered) = emitted
    /\ state = "failed"
    /\ outcome = "error"
    /\ rs.storedError = "status"

\* C20 (as claimed): when the server emits a block whose number is not above that
\* of the block received before it, ingest throws: the block is not put into the
\* buffer and fromBlock does not move backwards.
C20_OutOfOrderIsFatal ==
    [][(disordered' /\ ~disordered) =>
            /\ pc' = "threw"
            /\ buffer'.blocks = buffer.blocks
            /\ fromBlock' >= fromBlock]_vars

\* C21 (as claimed): an answer of the height endpoint that does not parse to an
\* integer makes getFinalizedHeight fail: ingest throws instead of issuing the
\* POST, and no batch is ever stamped with a finalizedHead number that is no
\* integer.
C21_MalformedHeightIsFatal ==
    /\ ~isSafeInteger(resHead) => pc \in {"threw", "finished"}
    /\ buffer.some => isSafeInteger(buffer.head)
    /\ \A i \in 1..Len(delivered) :
           ~delivered[i].undef => isSafeInteger(delivered[i].head)

\* The response that carried a block at or above toBlock has ended.
QueryExhausted ==
    /\ emitted # <<>> /\ Last(emitted) >= toBlock
    /\ reader = "ended"

\* C22: no request carries a fromBlock above toBlock; once a block at or above
\* toBlock was received and its response has ended, ingest issues no further
\* request and ends without an error, and a consumer that goes on reading
\* receives end-of-stream, after every buffered block unless it cancelled.
C22_BoundedQueryTerminates ==
    /\ [](requestCount > 0 => lastRequest <= toBlock)
    /\ [][requestCount' # requestCount => fromBlock <= toBlock]_vars
    /\ [](QueryExhausted =>
            /\ pc \in {"returned", "finished"}
            /\ thrown = "none" /\ state # "failed"
            /\ pc = "finished" => state = "closed")
    /\ [][QueryExhausted => requestCount' = requestCount]_vars
    /\ QueryExhausted ~>
            (outcome = "eos" /\ (~cancelled => Flatten(delivered) = emitted))

\* C22 witness: a bounded query was served by two responses, the second ended
\* after the block toBlock, and the consumer has received every block and then
\* end-of-stream.
C22_Witness ==
    /\ toBlock = QueryToBlock
    /\ QueryExhausted
    /\ Last(emitted) = toBlock
    /\ requestCount = 2
    /\ pc = "finished"
    /\ outcome = "eos" /\ ~cancelled
    /\ Flatten(delivered) = emitted

\* The lines of all batches, in order.
RECURSIVE AllLines(_)
AllLines(bs) == IF bs = <<>> THEN <<>> ELSE Head(bs) \o AllLines(Tail(bs))

\* The text that a list of complete lines was read from: each line, followed by
\* the separator.
RECURSIVE Terminated(_)
Terminated(lines) ==
    IF lines = <<>> THEN <<>>
    ELSE Head(lines) \o <<Separator>> \o Terminated(Tail(lines))

HasSeparator(l) == \E i \in 1..Len(l) : l[i] = Separator
EndsWithSeparator(s) == s # <<>> /\ Last(s) = Separator

\* C23: whatever the text and however it is cut into chunks, the lines enqueued
\* so far, each followed by the separator, and then the carried partial line are
\* the text written so far; no line holds a separator and no batch is empty.  At
\* the end of the stream the lines are those of the text: a text that ends with
\* the separator (or is empty) yields exactly its lines, and the fragment after
\* the last separator, when there is one, is the single line of the last batch.
C23_LineSplit ==
    /\ ~HasSeparator(line)
    /\ \A i \in 1..Len(enqueued) :
           /\ enqueued[i] # <<>>
           /\ \A j \in 1..Len(enqueued[i]) : ~HasSeparator(enqueued[i][j])
    /\ ~flushed =>
           Terminated(AllLines(enqueued)) \o line = SubSeq(decoded, 1, written)
    /\ flushed =>
           /\ line = <<>>
           /\ IF decoded = <<>> \/ EndsWithSeparator(decoded)
              THEN Terminated(AllLines(enqueued)) = decoded
              ELSE /\ Terminated(AllLines(enqueued)) = decoded \o <<Separator>>
                   /\ Len(Last(enqueued)) = 1

\* C23 witness: a text of two lines and a trailing fragment was written in chunks
\* of which one ended inside a line, and the stream has ended.
C23_Witness ==
    /\ flushed
    /\ Len(AllLines(enqueued)) = 3
    /\ ~EndsWithSeparator(decoded)
    /\ \E k \in cuts :
           /\ k < Len(decoded)
           /\ decoded[k] # Separator /\ decoded[k + 1] # Separator

\* The kinds of a DataRequest.
Kinds == {"logs", "transactions", "traces", "stateDiffs"}

\* `stored` is the string `given` in lower case.
IsLowerCaseOf(stored, given) ==
    /\ Len(stored) = Len(given)
    /\ \A i \in DOMAIN given :
           /\ ~IsUpper(stored[i])
           /\ \/ stored[i] = given[i]
              \/ \E k \in DOMAIN UpperCase :
                     UpperCase[k] = given[i] /\ LowerCase[k] = stored[i]

\* `stored` is the filter `given` with the strings of its arrays in lower case
\* and everything else as given.
IsNormalized(stored, given) ==
    /\ DOMAIN stored = DOMAIN given
    /\ \A key \in DOMAIN given :
           /\ stored[key].isArray = given[key].isArray
           /\ stored[key].flag = given[key].flag
           /\ Len(stored[key].items) = Len(given[key].items)
           /\ \A i \in DOMAIN given[key].items :
                  LET s == stored[key].items[i]
                      g == given[key].items[i]
                  IN  IF g.isString
                      THEN s.isString /\ IsLowerCaseOf(s.chars, g.chars)
                      ELSE s = g

\* C24: every add* call appends exactly one entry to this.ranges and returns the
\* builder; the entry carries the range of the call and a request whose only
\* list is that of the call's kind, holding one filter: the filter given, with
\* every string of its arrays in lower case and its numbers and flags unchanged.
C24_AddAppendsNormalized ==
    /\ [](/\ Len(ranges) = Len(calls)
          /\ \A i \in DOMAIN calls :
                 /\ ranges[i].range = calls[i].options.range
                 /\ ~ranges[i].request.includeAllBlocks
                 /\ \A kind \in Kinds \ {calls[i].kind} :
                        ~ranges[i].request[kind].defined
                 /\ ranges[i].request[calls[i].kind].defined
                 /\ Len(ranges[i].request[calls[i].kind].items) = 1
                 /\ IsNormalized(ranges[i].request[calls[i].kind].items[1].fields,
                                 calls[i].options.fields))
    /\ [][calls' # calls =>
            /\ Len(ranges') = Len(ranges) + 1
            /\ SubSeq(ranges', 1, Len(ranges)) = ranges
            /\ lastReturn' = "this"]_vars

\* C24 witness: a transaction filter with numbers and a log filter were added,
\* and the stored filters differ from those given by the case of their strings.
C24_Witness ==
    /\ Len(calls) = 2
    /\ calls[1].kind = "transactions" /\ calls[2].kind = "logs"
    /\ ranges[1].request.transactions.items[1].fields # calls[1].options.fields
    /\ ranges[1].request.transactions.items[1].fields["type"]
           = calls[1].options.fields["type"]
    /\ ranges[2].request.logs.items[1].fields # calls[2].options.fields
    /\ lastReturn = "this"

\* The filters of one kind that the entries covering a range contribute, in the
\* order of the entries.
RECURSIVE Contributed(_, _, _)
Contributed(entries, kind, r) ==
    IF entries = <<>> THEN <<>>
    ELSE (IF Covers(Head(entries).range, r)
          THEN Head(entries).request[kind].items ELSE <<>>)
             \o Contributed(Tail(entries), kind, r)

Contributors(entries, r) == {i \in DOMAIN entries : Covers(entries[i].range, r)}

\* C25: the ranges build() returns are not empty, ascending and pairwise
\* disjoint, and lie within this.range; each carries, for every kind, the
\* filters of the add* entries covering it, concatenated in the order of the
\* calls (no list when there is no such filter), and includeAllBlocks exactly
\* when an entry covering it has it.
C25_BuildMerges ==
    lastReturn = "query" =>
        /\ \A i \in DOMAIN built :
               /\ ~IsEmptyRange(built[i].range)
               /\ Covers(range, built[i].range)
               /\ Contributors(ranges, built[i].range) # {}
               /\ \A kind \in Kinds :
                      LET items == Contributed(ranges, kind, built[i].range)
                      IN  built[i].request[kind]
                              = IF items = <<>> THEN NoList ELSE ListOf(items)
               /\ built[i].request.includeAllBlocks
                      = \E k \in Contributors(ranges, built[i].range) :
                            ranges[k].request.includeAllBlocks
        /\ \A i \in 1..(Len(built) - 1) :
               built[i].range.to < built[i + 1].range.from

\* C25 witness: two log filters with overlapping ranges were added, setRange was
\* called, and build() returned two ranges of which one carries both filters.
C25_Witness ==
    /\ lastReturn = "query"
    /\ range # Unbounded
    /\ Len(ranges) = 2
    /\ Len(built) = 2
    /\ \E i \in DOMAIN built :
           /\ Len(built[i].request.logs.items) = 2
           /\ built[i].request.logs.items[1] # built[i].request.logs.items[2]
           /\ \A k \in DOMAIN ranges : ranges[k].range # built[i].range

Overlap(r, s) == ~IsEmptyRange(rangeIntersection(r, s))

NonOverlapping(entries) ==
    \A i, j \in DOMAIN entries : i # j => ~Overlap(entries[i].range, entries[j].range)

\* The entries as they would be had the calls been made in the order p.
Reordered(entries, p) == [i \in DOMAIN entries |-> entries[p[i]]]

\* C26: when the ranges of the add* calls do not overlap, build() returns the same
\* ranges with the same requests whatever the order of the calls; in general every
\* range returned starts and ends at an endpoint of an added range or of
\* this.range, and carries the filters of exactly the entries covering it.
C26_BuildIgnoresCallOrder ==
    lastReturn = "query" =>
        /\ NonOverlapping(ranges) =>
               \A p \in Permutations(DOMAIN ranges) :
                   Build(Reordered(ranges, p), range) = built
        /\ \A i \in DOMAIN built :
               /\ \/ built[i].range.from = range.from
                  \/ \E k \in DOMAIN ranges :
                         \/ built[i].range.from = ranges[k].range.from
                         \/ built[i].range.from = ranges[k].range.to + 1
               /\ \/ built[i].range.to = range.to
                  \/ \E k \in DOMAIN ranges :
                         \/ built[i].range.to = ranges[k].range.to
                         \/ built[i].range.to = ranges[k].range.from - 1
               /\ \A kind \in Kinds :
                      {built[i].request[kind].items[n] :
                          n \in DOMAIN built[i].request[kind].items}
                        = UNION {{ranges[k].request[kind].items[n] :
                                     n \in DOMAIN ranges[k].request[kind].items} :
                                 k \in Contributors(ranges, built[i].range)}

\* C26 witness: two filters of different kinds were added, the one with the
\* higher range first, and build() returned both ranges in ascending order.
C26_Witness ==
    /\ lastReturn = "query"
    /\ Len(ranges) = 2
    /\ calls[1].kind # calls[2].kind
    /\ ranges[1].range.from > ranges[2].range.to
    /\ Len(built) = 2
    /\ built[1].request = ranges[2].request
    /\ built[2].request = ranges[1].request

\* The indices of the entries of xs that a clip by `bound` keeps, ascending.
Kept(xs, bound) ==
    Ascending({i \in DOMAIN xs : Overlap(xs[i].range, bound)})

\* C27: clipping by a and then by b is clipping by the intersection of a and b,
\* for the merged requests of every builder and every a and b; so the requests
\* getBlockStream(outer) goes through, on a query built with setRange(a), are the
\* merged requests that overlap both ranges, in their order, each with its range
\* cut to both and its request unchanged.
C27_ClipComposes ==
    dsPc # "idle" =>
        LET xs == mergeRangeRequests(ranges)
            both == rangeIntersection(range, outer)
            kept == Kept(xs, both)
        IN  /\ query = applyRangeBound(xs, both)
            /\ \A b \in Ranges :
                   applyRangeBound(query, b)
                       = applyRangeBound(xs, rangeIntersection(both, b))
            /\ Len(query) = Len(kept)
            /\ \A j \in DOMAIN query :
                   /\ query[j].request = xs[kept[j]].request
                   /\ query[j].range.from
                          = Max(xs[kept[j]].range.from, Max(range.from, outer.from))
                   /\ query[j].range.to
                          = Min(xs[kept[j]].range.to, Min(range.to, outer.to))

\* C27 witness: of three merged ranges, setRange cut away the first and the range
\* given to getBlockStream the last.
C27_Witness ==
    /\ dsPc # "idle"
    /\ Len(mergeRangeRequests(ranges)) = 3
    /\ Len(built) = 2
    /\ Len(query) = 1
    /\ outer.to < range.to
    /\ outer.from < range.from

\* C30: the stream state starts 'open' and changes at most once, in the step that
\* ends the ingest task: to 'closed' when ingest returned (an ingest interrupted
\* by cancel returns), to 'failed' when it threw.  Hence the state is 'open' as
\* long as ingest runs, and 'closed' and 'failed' are never left.
IngestRuns == pc \notin {"returned", "threw", "finished"}
C30_StateChangesOnceAtEnd ==
    /\ [](pc # "finished" => state = "open")
    /\ [][/\ state' # state =>
               /\ state = "open"
               /\ pc \in {"returned", "threw"} /\ pc' = "finished"
          /\ (pc # "finished" /\ pc' = "finished") =>
               state' = (IF pc = "returned" THEN "closed" ELSE "failed")
          /\ state # "open" => state' = state
          /\ (IngestRuns /\ aborted) => pc' # "threw"]_vars
C30_Witness ==
    /\ pc = "finished"
    /\ state = "closed"
    /\ cancelled
    /\ pcAtCancel = "read"

\* C28: the fields of every wire request of getBlockStream are the union of the
\* user's selection and the always-selected set: a field is true in the request
\* exactly if it is always selected or the user selected it.
AlwaysSelected ==
    [block |-> {"number", "hash", "parentHash"},
     transaction |-> {"transactionIndex"},
     log |-> {"logIndex", "transactionIndex"},
     trace |-> {"transactionIndex", "traceAddress", "type"},
     stateDiff |-> {"transactionIndex", "address", "key", "kind"}]
C28_FieldsHydrated ==
    \A k \in 1..Len(wire) : \A e \in Entities : \A n \in FieldNames[e] :
        wire[k].fields[e][n] = "true" <=>
            (n \in AlwaysSelected[e] \/ fields[e][n] = "true")

\* C29: getBlockStream takes the ranges of the clipped query one at a time and in
\* ascending order: request k is made from range k, and the stream of the next
\* range is opened only when that of the range before has ended and its batches
\* were put.  Every batch that arrived is handed to the consumer once and in the
\* order of arrival: what the consumer received is a prefix of what arrived, all
\* of it at a regular end of the stream, and, as long as nothing failed and the
\* consumer did not cancel, the consumer again and again has received every batch
\* that arrived.  So the blocks received increase across the ranges.
RequestsFollowQuery ==
    /\ Len(wire) = index
    /\ \A k \in 1..Len(wire) :
          /\ wire[k].fromBlock = query[k].range.from
          /\ wire[k].toBlock = query[k].range.to
          /\ wire[k].logs = query[k].request.logs
          /\ wire[k].transactions = query[k].request.transactions
    /\ \A k \in 1..(Len(wire) - 1) : wire[k].toBlock < wire[k + 1].fromBlock
BlocksOf(batches) == [i \in 1..Len(batches) |-> batches[i].blocks]
Undisturbed == ~acAborted /\ portal.state # "errored"
C31_NoTimerOutlivesReady ==
    /\ []((idleInterval \/ waitTimeout) => (~readyFuture /\ state = "open"))
    /\ [](pc = "finished" => (~idleInterval /\ ~waitTimeout))
    /\ [][(pullPc = "awaitPut" /\ pullPc' = "idle") =>
            (~idleInterval' /\ ~waitTimeout')]_vars
    /\ [][(readyFuture' /\ ~readyFuture) => (~idleInterval' /\ ~waitTimeout')]_vars

\* C31 witness: ingest failed on a transport error while a take was waiting on a
\* buffer below minBytes (both timers armed); fail() has left no timer.
C31_Witness ==
    /\ state = "failed"
    /\ thrown = "transport"
    /\ pullPc = "awaitReady"
    /\ buffer.blocks # <<>>
    /\ buffer.bytes < minBytes
    /\ ~idleInterval /\ ~waitTimeout

\* C32: a response body is open only while the inner loop reads it (or is parked
\* on backpressure within it); a new body is taken up only when there is none or
\* the one before was read to its end, so at most one is open at a time; and once
\* ingest has ended, however it ended, its reader is not open: the body was read
\* to its end or the reader was cancelled.
C32_ReaderReleased ==
    /\ [](reader = "open" => pc \in {"read", "park"})
    /\ [](pc \in {"returned", "threw", "finished"} => reader # "open")
    /\ [][(reader' = "open" /\ pc = "request") => reader \in {"none", "ended"}]_vars

\* C32 witness: the consumer cancelled while ingest was parked on backpressure
\* inside an open body; ingest has ended and the reader is cancelled.
C32_Witness ==
    /\ pc = "finished"
    /\ cancelled
    /\ pcAtCancel = "park"
    /\ reader = "cancelled"

\* C33: while the buffer exists its bytes are the sum of the lengths of the lines
\* of exactly the blocks it holds, and these are the blocks read and not yet
\* handed out; an absent buffer holds no blocks and no bytes; every completed
\* take leaves the buffer absent, and the chunk that follows starts a buffer that
\* counts that chunk's lines only.
C33_BytesMatchBlocks ==
    /\ [](buffer.some => buffer.bytes = SumLength(buffer.blocks))
    /\ [](~buffer.some => (buffer.blocks = <<>> /\ buffer.bytes = 0))
    /\ [](handed \o buffer.blocks = emitted)
    /\ [][(pullPc = "awaitPut" /\ pullPc' = "idle") => ~buffer'.some]_vars
    /\ [][(~buffer.some /\ buffer'.some) =>
            /\ emitted' = emitted \o buffer'.blocks
            /\ buffer'.bytes = buffer'.tail]_vars

\* C33 witness: after a first batch was handed out, two chunks have been appended
\* to a new buffer.
C33_Witness ==
    /\ handed # <<>>
    /\ Len(buffer.blocks) = 2
    /\ buffer.tail < buffer.bytes
    /\ buffer.bytes = SumLength(buffer.blocks)

\* C34: a stream runs with maxBytes >= minBytes whatever was given to the client
\* and to the stream: its minBytes is the stream's option, else the client's,
\* else the default; its maxBytes is the larger of that minBytes and the
\* stream's option, else the client's maxBytes; and a client made without
\* maxBytes has its minBytes as maxBytes.
GivenMinBytes ==
    OrElse(streamOptions.minBytes, OrElse(clientOptions.minBytes, DefaultMinBytes))
GivenMaxBytes ==
    OrElse(streamOptions.maxBytes,
           OrElse(clientOptions.maxBytes,
                  OrElse(clientOptions.minBytes, DefaultMinBytes)))
C34_MaxBytesAtLeastMinBytes ==
    /\ optionsPc = "stream" =>
          /\ effective.maxBytes >= effective.minBytes
          /\ effective.minBytes = GivenMinBytes
          /\ effective.maxBytes =
                (IF GivenMaxBytes >= GivenMinBytes THEN GivenMaxBytes ELSE GivenMinBytes)
    /\ (optionsPc \in {"client", "options", "stream"} /\ ~clientOptions.maxBytes.given) =>
          client.maxBytes = client.minBytes

\* C34 witness: the stream was given maxBytes below minBytes and runs with both
\* equal.
C34_Witness ==
    /\ optionsPc = "stream"
    /\ streamOptions.maxBytes.given /\ streamOptions.minBytes.given
    /\ streamOptions.maxBytes.value < streamOptions.minBytes.value
    /\ effective.maxBytes = streamOptions.minBytes.value

\* C35: every batch the consumer receives holds at least one block: none is
\* undefined and none has an empty list of blocks.
C35_NoEmptyBatch ==
    \A i \in 1..Len(delivered) :
        ~delivered[i].undef /\ delivered[i].blocks # <<>>

\* C36: while ingest is parked on backpressure and no take has released it, the
\* buffer holds blocks (maxBytes of them or more, and maxBytes >= minBytes) and
\* both readyFuture and putFuture are resolved with no timer armed, so a take
\* passes both of its awaits at once; hence ingest is never parked while a take
\* waits for readyFuture or putFuture.
Parked == pc = "park" /\ ~ingestWake
C36_ParkedMeansReady ==
    /\ maxBytes >= minBytes
    /\ Parked =>
          /\ buffer.blocks # <<>> /\ buffer.bytes >= maxBytes
          /\ readyFuture /\ putFuture
          /\ ~idleInterval /\ ~waitTimeout
          /\ state = "open"
    /\ ~(Parked /\ pullPc = "awaitReady" /\ ~readyFuture)
    /\ ~(Parked /\ pullPc = "awaitPut" /\ ~putFuture)

\* C36 witness: a pull was made while ingest is parked; its take finds
\* readyFuture resolved.
C36_Witness ==
    /\ Parked
    /\ pullPc = "awaitReady"
    /\ readyFuture /\ putFuture
    /\ ~aborted

\* C37: with the consumer reading on and timers firing, a buffer that holds
\* blocks is handed out in the end, unless the consumer cancelled or ingest
\* failed: whatever the server does next (more lines, the end of the body,
\* silence), the size trigger, a timer, the end of the response or close makes the
\* buffer ready, and the take that follows empties it: every handoff hands out
\* all that was appended before it.
Disturbed == cancelled \/ pc = "threw" \/ state = "failed"
C37_BufferEventuallyHanded ==
    /\ (buffer.blocks # <<>>) ~> (handed = emitted \/ Disturbed)
    /\ [][handed' # handed => (handed' = emitted' /\ buffer'.blocks = <<>>)]_vars

\* C37 witness: blocks that sat in a buffer below minBytes, mid-response, were
\* handed out after the idle interval fired, and nothing is left to hand out.
C37_Witness ==
    /\ delivered # <<>>
    /\ Last(delivered).blocks # <<>>
    /\ SumLength(Last(delivered).blocks) < minBytes
    /\ handed = emitted
    /\ pc = "read"
    /\ ~Disturbed

\* C38: every request ingest issues carries the caller's query with nothing but
\* fromBlock replaced (the first from the caller's fromBlock, a later one from a
\* block after it) and the caller's request options with nothing but the
\* stream's abort signal added; the caller's query object itself is never
\* modified, whatever fromBlock ingest has advanced to.
C38_RequestIsQueryWithFromBlock ==
    /\ Len(issued) = requestCount
    /\ \A k \in 1..Len(issued) :
        /\ DOMAIN issued[k].query = DOMAIN portalQuery
        /\ \A f \in DOMAIN portalQuery \ {"fromBlock"} :
              issued[k].query[f] = portalQuery[f]
        /\ issued[k].query.fromBlock >= portalQuery.fromBlock
        /\ DOMAIN issued[k].options = DOMAIN CallerRequest
        /\ \A o \in DOMAIN CallerRequest \ {"abort"} :
              issued[k].options[o] = CallerRequest[o]
        /\ issued[k].options.abort = "abortStream.signal"
    /\ issued # <<>> => issued[1].query.fromBlock = QueryFromBlock
    /\ issued # <<>> => Last(issued).query.fromBlock = lastRequest
    /\ portalQuery = CallerQuery(toBlock)

\* C38 witness: a second request was issued from a later block of a query with
\* an end, and ingest's fromBlock has moved past the caller's.
C38_Witness ==
    /\ Len(issued) = 2
    /\ issued[2].query.fromBlock > QueryFromBlock
    /\ issued[2].query.toBlock = QueryToBlock
    /\ fromBlock > portalQuery.fromBlock
    /\ portalQuery.toBlock = QueryToBlock

\* C39: when the consumer cancels the data source's block stream, the portal
\* stream being read is cancelled, and from then on no portal stream is opened
\* for a later range: no request is added and no portal stream is open.
C39_NoStreamAfterCancel ==
    /\ [][(acAborted' /\ ~acAborted /\ portal.state = "open") =>
            portal'.state = "cancelled"]_vars
    /\ [][acAborted => wire' = wire]_vars
    /\ [](acAborted => portal.state # "open")

\* C40: in the client built on AsyncQueue, a body silent for longer than
\* newBlockTimeout resets the stream and does not end it: the timeout leaves the
\* stream's own abort signal alone, the blocks received so far are made ready
\* when the request is given up, every request starts at startBlock, and unless
\* the consumer cancelled, ingest returns and the consumer sees end-of-stream
\* only once the query is exhausted, and the timeout brings no error.
C40_TimeoutResetsStream ==
    /\ [][(timedOut' /\ ~timedOut) => abortStream' = abortStream]_vars
    /\ [][(timedOut /\ ingestPc = "pipe" /\ ingestPc' # "pipe"
            /\ blocksBuffer.blocks # <<>>) => blocksBuffer'.queue.items # <<>>]_vars
    /\ [][Len(archiveQueries') > Len(archiveQueries) =>
            Last(archiveQueries') = ArchiveQuery(startBlock)]_vars
    /\ []((timedOut /\ ~streamCancelled /\ ingestPc \in {"returned", "finished"}) =>
            startBlock > EndBlock)
    /\ []((timedOut /\ ~streamCancelled /\ ended = "eos") => startBlock > EndBlock)
    /\ [][(timedOut' /\ ~timedOut) => ingestPc' # "threw"]_vars

====
